---- MODULE Spec2Model ----
(***************************************************************************)
(* Model of the GanttChart component (src/components/gantt/GanttChart.tsx) *)
(* of sysquote-auth-gateway: the grouping of scheduled task segments by    *)
(* resource and machine, the vertical and horizontal layout of the         *)
(* segments, the total-engagement bars and the loading/empty/error/chart   *)
(* outcome of a render; and of the useTrainingTopics hook (its select and  *)
(* addTopic), of MachineSelector with its updatePlanningDetails, of        *)
(* PrivateRoute, and of handleSave of AreaCostModal. Each component has    *)
(* its own variables and its own specifications, in which the variables    *)
(* of the other components do not change.                                  *)
(*                                                                         *)
(* Conventions.                                                            *)
(*  - An optional number (a field that may be null or undefined) is the    *)
(*    empty tuple Null when missing and the one-element tuple Some(v) when *)
(*    present; `x == null` of the source is x = Null.                      *)
(*  - An optional string is "" when missing: the source only ever tests    *)
(*    strings for truthiness (`s || default`, `if (s)`), and null,         *)
(*    undefined and "" are all falsy.                                      *)
(*  - Hours are counted in units of 1/HourDen hour and horizontal pixel    *)
(*    quantities (left, width) in units of 1/PxDen pixel, so that          *)
(*    (hours / DAILY_HOUR_LIMIT) * DAY_WIDTH is computed exactly. All      *)
(*    these values are dyadic rationals, for which the source's floating   *)
(*    point arithmetic is exact as well.                                   *)
(***************************************************************************)
EXTENDS Integers, Sequences, FiniteSets, TLC

VARIABLES
    requirements,        \* prop: the scheduled segments, in input order
    loading,             \* prop
    error,               \* prop: "" when null, else the message
    workOnSaturday,      \* prop
    workOnSunday,        \* prop
    resourceGroups,      \* useMemo: ordered resource groups
    totalGridHeight,     \* useMemo
    tasksToRender,       \* useMemo: TaskRenderInfo[]
    totalEngagementBars, \* useMemo: TotalEngagementBar[]
    warnings,            \* console.warn calls of the last layout pass (segment ids)
    weekendDays,         \* the <<month, day>> cells given the weekend class
    scrollLeft,          \* scrollContainerRef.current.scrollLeft (px)
    scrollTop,           \* scrollContainerRef.current.scrollTop (px)
    headerTranslateX,    \* translation of the timeline header by its transform
    listTranslateY,      \* translation of the resource list by its transform
    scrollEventPending,  \* a scroll event of the grid waits for its handler
    rendered,            \* which element the render returned
    \* useTrainingTopics
    selectedMachineIds,  \* argument of the hook: the machine ids, in order
    topics,              \* useState: the rows shown
    topicsLoading,       \* useState `loading`
    topicsError,         \* useState `error`: "" when null
    fetchesInFlight,     \* the selects of fetchTopics awaiting their answer
    fetchesStarted,      \* how many selects were sent
    training_topics,     \* the backend table, in display order
    newTopic,            \* state newTopic of the hook
    isAddingTopic,       \* state isAddingTopic of the hook
    addCall,             \* the call of addTopic that waits for its inserts
    addReturned,         \* what the last call of addTopic returned
    addsStarted,         \* calls of addTopic so far
    \* MachineSelector
    selectorMachineIds,  \* prop selectedMachineIds of the selector
    planning_details,    \* the backend table: the machine rows of the quote
    runs,                \* the calls of updatePlanningDetails, in start order
    detailsInserted,     \* how many rows were inserted (the next id minus 1)
    backendError,        \* a request of some run was answered with an error
    \* PrivateRoute
    user,                \* useAuth().user
    authLoading,         \* useAuth().isLoading
    history,             \* the entries of the router, the location last
    routeElement,        \* what PrivateRoute returned, if it is rendered
    \* AreaCostModal
    area_costs,          \* the backend table
    isSaving,            \* state isSaving of the modal
    saveCall,            \* the last call of handleSave and where it is
    savesStarted,        \* calls of handleSave so far
    onSaveCalls,         \* calls of the prop onSave so far
    onCloseCalls         \* calls of the prop onClose so far

\* The props of the chart, what its renders derive from them, and the scroll
\* state of its elements.
props == <<requirements, loading, error, workOnSaturday, workOnSunday>>
layoutData == <<resourceGroups, totalGridHeight, tasksToRender,
                totalEngagementBars, warnings, weekendDays, rendered>>
scrollState == <<scrollLeft, scrollTop, headerTranslateX, listTranslateY,
                 scrollEventPending>>
gantt == <<props, layoutData, scrollState>>

\* The state of the hook and of the table it reads.
\* The state of addTopic.
adding == <<newTopic, isAddingTopic, addCall, addReturned, addsStarted>>

topicsHook == <<selectedMachineIds, topics, topicsLoading, topicsError,
                fetchesInFlight, fetchesStarted, training_topics, adding>>

\* The state of the selector, of its runs and of the table they write.
selector == <<selectorMachineIds, planning_details, runs, detailsInserted,
              backendError>>

\* The state of the authentication context, the router and PrivateRoute.
route == <<user, authLoading, history, routeElement>>

\* The state of AreaCostModal, of its handleSave and of the table it writes.
modal == <<area_costs, isSaving, saveCall, savesStarted, onSaveCalls,
           onCloseCalls>>

\* The variables of the components other than the chart, and other than
\* each of the other components.
others == <<topicsHook, selector, route, modal>>
besidesHook == <<gantt, selector, route, modal>>
besidesSelector == <<gantt, topicsHook, route, modal>>
besidesRoute == <<gantt, topicsHook, selector, modal>>
besidesModal == <<gantt, topicsHook, selector, route>>

vars == <<gantt, others>>

\* ---------------------------------------------------------------- constants

DAY_WIDTH == 30
RESOURCE_HEADER_HEIGHT == 40
MACHINE_ROW_HEIGHT == 30
DAILY_HOUR_LIMIT == 8
MIN_WIDTH == 4
daysPerMonth == 30
totalMonths == 12

\* Resolution of the hour values of the model: 1/HourDen hour.
HourDen == 8
\* Resolution of left and width: 1/PxDen pixel.
PxDen == HourDen * DAILY_HOUR_LIMIT

\* ------------------------------------------------------------------ helpers

Null == << >>
Some(v) == << v >>
Get(x) == x[1]

Max(a, b) == IF a >= b THEN a ELSE b
Min(a, b) == IF a <= b THEN a ELSE b

\* The index of the first element of s satisfying Test, 0 if there is none
\* (Array.prototype.find / Map.prototype.has over an insertion-ordered list).
FindIndex(s, Test(_)) ==
    IF \E i \in 1..Len(s) : Test(s[i])
    THEN CHOOSE i \in 1..Len(s) : Test(s[i]) /\ \A j \in 1..(i - 1) : ~Test(s[j])
    ELSE 0

\* All orderings of the elements of the sequence s.
Perms(s) ==
    { [i \in 1..Len(s) |-> s[p[i]]] :
        p \in { q \in [1..Len(s) -> 1..Len(s)] :
                  \A i, j \in 1..Len(s) : i # j => q[i] # q[j] } }

\* Array.prototype.forEach / reduce with an accumulator.
RECURSIVE FoldLeft(_, _, _)
FoldLeft(Op(_, _), acc, s) ==
    IF s = << >> THEN acc ELSE FoldLeft(Op, Op(acc, Head(s)), Tail(s))

\* ------------------------------------------------- grouping (resourceGroups)

\* seg.resource_name || `Resource ${seg.resource_id}`
ResourceName(seg) ==
    IF seg.resource_name = ""
    THEN "Resource " \o ToString(Get(seg.resource_id))
    ELSE seg.resource_name

\* seg.machine_name || "Unknown Machine"
MachineName(seg) ==
    IF seg.machine_name = "" THEN "Unknown Machine" ELSE seg.machine_name

\* GroupSegment without the search for the machine group of the segment's
\* machine name: every segment opens a machine group.
GroupSegment_NewMachineAlways(groups, seg) ==
    IF seg.resource_id = Null
    THEN groups
    ELSE LET rid == Get(seg.resource_id)
             gi0 == FindIndex(groups, LAMBDA g : g.resourceId = rid)
             groups1 == IF gi0 = 0
                        THEN Append(groups, [resourceId |-> rid,
                                             resourceName |-> ResourceName(seg),
                                             machines |-> << >>])
                        ELSE groups
             gi == IF gi0 = 0 THEN Len(groups1) ELSE gi0
             ms == groups1[gi].machines
             ms1 == Append(ms, [machineName |-> MachineName(seg),
                                displayHours |-> 0,
                                requirements |-> << >>,
                                resourceCategory |-> seg.resource_category])
             mi == Len(ms1)
         IN [groups1 EXCEPT ![gi].machines =
                [ms1 EXCEPT ![mi].requirements = Append(@, seg)]]

\* GroupSegment with a new resource group put in front of the others instead
\* of after them.
GroupSegment_NewGroupFirst(groups, seg) ==
    IF seg.resource_id = Null
    THEN groups
    ELSE LET rid == Get(seg.resource_id)
             gi0 == FindIndex(groups, LAMBDA g : g.resourceId = rid)
             groups1 == IF gi0 = 0
                        THEN << [resourceId |-> rid,
                                 resourceName |-> ResourceName(seg),
                                 machines |-> << >>] >> \o groups
                        ELSE groups
             gi == IF gi0 = 0 THEN 1 ELSE gi0
             ms == groups1[gi].machines
             mi0 == FindIndex(ms, LAMBDA m : m.machineName = MachineName(seg))
             ms1 == IF mi0 = 0
                    THEN Append(ms, [machineName |-> MachineName(seg),
                                     displayHours |-> 0,
                                     requirements |-> << >>,
                                     resourceCategory |-> seg.resource_category])
                    ELSE ms
             mi == IF mi0 = 0 THEN Len(ms1) ELSE mi0
         IN [groups1 EXCEPT ![gi].machines =
                [ms1 EXCEPT ![mi].requirements = Append(@, seg)]]

\* The body of requirements.forEach(seg => ...) that fills the Map `groups`;
\* the Map is the sequence of its values in insertion order.
GroupSegment(groups, seg) ==
    IF seg.resource_id = Null
    THEN groups
    ELSE LET rid == Get(seg.resource_id)
             gi0 == FindIndex(groups, LAMBDA g : g.resourceId = rid)
             groups1 == IF gi0 = 0
                        THEN Append(groups, [resourceId |-> rid,
                                             resourceName |-> ResourceName(seg),
                                             machines |-> << >>])
                        ELSE groups
             gi == IF gi0 = 0 THEN Len(groups1) ELSE gi0
             ms == groups1[gi].machines
             mi0 == FindIndex(ms, LAMBDA m : m.machineName = MachineName(seg))
             ms1 == IF mi0 = 0
                    THEN Append(ms, [machineName |-> MachineName(seg),
                                     displayHours |-> 0,
                                     requirements |-> << >>,
                                     resourceCategory |-> seg.resource_category])
                    ELSE ms
             mi == IF mi0 = 0 THEN Len(ms1) ELSE mi0
         IN [groups1 EXCEPT ![gi].machines =
                [ms1 EXCEPT ![mi].requirements = Append(@, seg)]]

\* UniqueTaskStep without the uniqueTasks.has test: every segment of a task
\* adds the task's hours again.
UniqueTaskStep_NoHasTest(uniqueTasks, seg) ==
    IF seg.originalRequirementId # Null
    THEN Append(uniqueTasks, [key |-> Get(seg.originalRequirementId),
                              value |-> seg.total_training_hours])
    ELSE uniqueTasks

\* The body of machine.requirements.forEach that fills the Map `uniqueTasks`
\* (first total_training_hours seen for each originalRequirementId).
UniqueTaskStep(uniqueTasks, seg) ==
    IF /\ seg.originalRequirementId # Null
       /\ FindIndex(uniqueTasks,
                    LAMBDA e : e.key = Get(seg.originalRequirementId)) = 0
    THEN Append(uniqueTasks, [key |-> Get(seg.originalRequirementId),
                              value |-> seg.total_training_hours])
    ELSE uniqueTasks

\* h || 0
HoursOrZero(h) == IF h = Null THEN 0 ELSE Get(h)

\* reduce((sum, h) => sum + (h || 0), 0)
AddHours(sum, e) == sum + HoursOrZero(e.value)

\* DisplayHours as the sum of the hours of the segments themselves.
DisplayHours_SegmentHours(machineRequirements) ==
    FoldLeft(LAMBDA sum, seg : sum + HoursOrZero(seg.segment_hours),
             0, machineRequirements)

\* machine.displayHours of one machine group.
DisplayHours(machineRequirements) ==
    FoldLeft(AddHours, 0, FoldLeft(UniqueTaskStep, << >>, machineRequirements))

\* String.prototype.localeCompare on the machine names of the model: names are
\* compared by their place in the collation order of the default locale
\* (letters before case, lower case before upper case).
CollationOrder == << "CAD", "drill", "Drill", "Lathe", "Unknown Machine" >>

CollationRank(name) == CHOOSE i \in 1..Len(CollationOrder) : CollationOrder[i] = name

LocaleCompare(a, b) ==
    IF CollationRank(a) < CollationRank(b) THEN -1
    ELSE IF CollationRank(a) > CollationRank(b) THEN 1 ELSE 0

\* a.resourceCategory || 'Machine'
CategoryOrMachine(m) ==
    IF m.resourceCategory = "" THEN "Machine" ELSE m.resourceCategory

\* The comparator handed to group.machines.sort.
MachineCompare(a, b) ==
    IF CategoryOrMachine(a) # CategoryOrMachine(b)
    THEN (IF CategoryOrMachine(a) = "Machine" THEN -1 ELSE 1)
    ELSE LocaleCompare(a.machineName, b.machineName)

\* Whether MachineCompare is a consistent comparator (ECMA-262, Array.prototype
\* .sort) for the machines ms: antisymmetric and transitive on them.
ConsistentComparator(ms) ==
    LET c == [i \in 1..Len(ms), j \in 1..Len(ms) |-> MachineCompare(ms[i], ms[j])]
    IN /\ \A i, j \in 1..Len(ms) :
             /\ (c[i, j] < 0) = (c[j, i] > 0)
             /\ (c[i, j] = 0) = (c[j, i] = 0)
       /\ \A i, j, k \in 1..Len(ms) :
             (c[i, j] <= 0 /\ c[j, k] <= 0) => c[i, k] <= 0

\* One step of a stable sort: x goes before the first element it compares
\* smaller than.
InsertSorted(sorted, x) ==
    LET at == FindIndex(sorted, LAMBDA y : MachineCompare(x, y) < 0)
    IN IF at = 0
       THEN Append(sorted, x)
       ELSE SubSeq(sorted, 1, at - 1) \o << x >> \o SubSeq(sorted, at, Len(sorted))

StableSort(ms) == FoldLeft(InsertSorted, << >>, ms)

\* The machines of ms whose (defaulted) category is / is not Machine, in order.
MachinesOnly(ms) == SelectSeq(ms, LAMBDA m : CategoryOrMachine(m) = "Machine")
OthersOnly(ms) == SelectSeq(ms, LAMBDA m : CategoryOrMachine(m) # "Machine")

\* The results group.machines.sort(MachineCompare) can have. With a consistent
\* comparator the sort is the stable sort. MachineCompare is not consistent
\* when a Software and an Unknown machine meet (each compares greater than the
\* other): the order is then implementation-defined. Every engine still puts
\* the Machine-category entries first and in name order, as they compare
\* smaller than all others whichever way round they are compared; the
\* remaining entries may come out in any order.
SortOutcomes(ms) ==
    IF ConsistentComparator(ms)
    THEN { StableSort(ms) }
    ELSE { StableSort(MachinesOnly(ms)) \o rest : rest \in Perms(OthersOnly(ms)) }

\* group.machines.forEach(machine => { ... machine.displayHours = ... })
WithDisplayHours(machine) ==
    [machine EXCEPT !.displayHours = DisplayHours(machine.requirements)]

SetDisplayHours(done, machine) == Append(done, WithDisplayHours(machine))

\* The first half of the body of groups.forEach: the hours of every machine.
SetGroupHours(done, group) ==
    Append(done, [group EXCEPT !.machines = FoldLeft(SetDisplayHours, << >>, @)])

\* The groups of the Map after the first forEach, with displayHours set.
GroupsWithHours(reqs) ==
    FoldLeft(SetGroupHours, << >>, FoldLeft(GroupSegment, << >>, reqs))

\* The second half of the body of groups.forEach: group.machines.sort(...),
\* for every group of gs, with every result the sorts can have.
RECURSIVE SortedGroups(_)
SortedGroups(gs) ==
    IF gs = << >>
    THEN { << >> }
    ELSE { << [Head(gs) EXCEPT !.machines = sorted] >> \o rest :
             sorted \in SortOutcomes(Head(gs).machines),
             rest \in SortedGroups(Tail(gs)) }

\* The values the resourceGroups memo can take for the requirements reqs.
ResourceGroupsOutcomes(reqs) == SortedGroups(GroupsWithHours(reqs))

\* AddGroupHeight without the header: only the machine rows are counted.
AddGroupHeight_NoHeader(height, group) ==
    height + (Len(group.machines) * MACHINE_ROW_HEIGHT)

\* resourceGroups.reduce((height, group) => height + RESOURCE_HEADER_HEIGHT
\*                        + group.machines.length * MACHINE_ROW_HEIGHT, 0)
AddGroupHeight(height, group) ==
    height + RESOURCE_HEADER_HEIGHT + (Len(group.machines) * MACHINE_ROW_HEIGHT)

TotalGridHeight(groups) == FoldLeft(AddGroupHeight, 0, groups)

\* ------------------------------------------------------ calendar helpers

\* getDayPosition without the "- 1": day 30 is the first day of month 2.
getDayPosition_NoMinusOne(startDay) ==
    LET validStartDay == Max(1, startDay)
    IN [month |-> (validStartDay \div daysPerMonth) + 1,
        dayOfMonth |-> (validStartDay % daysPerMonth) + 1]

\* getDayPosition(startDay)
getDayPosition(startDay) ==
    LET validStartDay == Max(1, startDay)
    IN [month |-> ((validStartDay - 1) \div daysPerMonth) + 1,
        dayOfMonth |-> ((validStartDay - 1) % daysPerMonth) + 1]

\* isWeekend with dayOfYear % 7, the first day of the year being day 1 of
\* the week instead of day 0.
isWeekend_NoMinusOne(month, day) ==
    LET dayOfYear == ((month - 1) * daysPerMonth) + day
        dayOfWeek == dayOfYear % 7
    IN \/ (dayOfWeek = 5 /\ ~workOnSaturday)
       \/ (dayOfWeek = 6 /\ ~workOnSunday)

\* isWeekend(month, day), a closure over the two props.
isWeekend(month, day) ==
    LET dayOfYear == ((month - 1) * daysPerMonth) + day
        dayOfWeek == (dayOfYear - 1) % 7
    IN \/ (dayOfWeek = 5 /\ ~workOnSaturday)
       \/ (dayOfWeek = 6 /\ ~workOnSunday)

\* months.map(month => days.map(day => isWeekend(month, day) ...)): the cells
\* of the day header that get the class 'weekend', which are also the days
\* that get a weekend background in the grid.
WeekendDays ==
    { cell \in (1..totalMonths) \X (1..daysPerMonth) : isWeekend(cell[1], cell[2]) }

\* ---------------------------------- tasksToRender and totalEngagementBars

\* MinMaxStep with the end day taken as start_day + duration_days, the day
\* after the segment's last day.
MinMaxStep_EndAfterLastDay(resourceMinMax, seg) ==
    IF seg.resource_id = Null \/ seg.start_day = Null \/ seg.duration_days = Null
    THEN resourceMinMax
    ELSE LET resourceId == Get(seg.resource_id)
             startDay == Get(seg.start_day)
             endDay == Get(seg.start_day) + Get(seg.duration_days)
         IN IF resourceId \notin DOMAIN resourceMinMax
            THEN [r \in DOMAIN resourceMinMax \cup {resourceId} |->
                    IF r = resourceId THEN [min |-> startDay, max |-> endDay]
                    ELSE resourceMinMax[r]]
            ELSE [resourceMinMax EXCEPT
                    ![resourceId] = [min |-> Min(@.min, startDay),
                                     max |-> Max(@.max, endDay)]]

\* MinMaxStep with one running minimum for all resources: a resource met for
\* the first time starts from the least start day seen so far.
MinMaxStep_SharedMin(resourceMinMax, seg) ==
    IF seg.resource_id = Null \/ seg.start_day = Null \/ seg.duration_days = Null
    THEN resourceMinMax
    ELSE LET resourceId == Get(seg.resource_id)
             startDay == Get(seg.start_day)
             endDay == Get(seg.start_day) + Get(seg.duration_days) - 1
             seen == { resourceMinMax[r].min : r \in DOMAIN resourceMinMax }
             least == IF \E d \in seen : d < startDay
                      THEN CHOOSE d \in seen : \A e \in seen : d <= e
                      ELSE startDay
         IN IF resourceId \notin DOMAIN resourceMinMax
            THEN [r \in DOMAIN resourceMinMax \cup {resourceId} |->
                    IF r = resourceId THEN [min |-> least, max |-> endDay]
                    ELSE resourceMinMax[r]]
            ELSE [resourceMinMax EXCEPT
                    ![resourceId] = [min |-> Min(@.min, startDay),
                                     max |-> Max(@.max, endDay)]]

\* Step 1, "Find min/max dates": the body of requirements.forEach filling
\* resourceMinMax, a function from the resource ids seen to [min, max].
MinMaxStep(resourceMinMax, seg) ==
    IF seg.resource_id = Null \/ seg.start_day = Null \/ seg.duration_days = Null
    THEN resourceMinMax
    ELSE LET resourceId == Get(seg.resource_id)
             startDay == Get(seg.start_day)
             endDay == Get(seg.start_day) + Get(seg.duration_days) - 1
         IN IF resourceId \notin DOMAIN resourceMinMax
            THEN [r \in DOMAIN resourceMinMax \cup {resourceId} |->
                    IF r = resourceId THEN [min |-> startDay, max |-> endDay]
                    ELSE resourceMinMax[r]]
            ELSE [resourceMinMax EXCEPT
                    ![resourceId] = [min |-> Min(@.min, startDay),
                                     max |-> Max(@.max, endDay)]]

ResourceMinMax(reqs) == FoldLeft(MinMaxStep, << >>, reqs)

\* EngagementBar without Math.max(1, travelStartDay): the bar starts on the
\* day before the first task, day 0 included.
EngagementBar_NoClamp(group, minMax, resourceTop) ==
    LET travelStartDay == minMax.min - 1
        travelEndDay == minMax.max + 1
    IN [resourceId |-> group.resourceId,
        resourceName |-> group.resourceName,
        travelStartDay |-> travelStartDay,
        travelEndDay |-> travelEndDay,
        totalDuration |-> Max(1, travelEndDay - travelStartDay + 1),
        top |-> resourceTop]

\* EngagementBar without the travel day after the last task day.
EngagementBar_NoEndPadding(group, minMax, resourceTop) ==
    LET earliestTaskStart == minMax.min
        latestTaskEnd == minMax.max
        travelStartDay == earliestTaskStart - 1
        travelEndDay == latestTaskEnd
        safeTravelStartDay == Max(1, travelStartDay)
        totalDuration == Max(1, travelEndDay - safeTravelStartDay + 1)
    IN [resourceId |-> group.resourceId,
        resourceName |-> group.resourceName,
        travelStartDay |-> safeTravelStartDay,
        travelEndDay |-> travelEndDay,
        totalDuration |-> totalDuration,
        top |-> resourceTop]

\* The engagement bar pushed for a group whose resource has a min/max entry.
EngagementBar(group, minMax, resourceTop) ==
    LET earliestTaskStart == minMax.min
        latestTaskEnd == minMax.max
        travelStartDay == earliestTaskStart - 1
        travelEndDay == latestTaskEnd + 1
        safeTravelStartDay == Max(1, travelStartDay)
        totalDuration == Max(1, travelEndDay - safeTravelStartDay + 1)
    IN [resourceId |-> group.resourceId,
        resourceName |-> group.resourceName,
        travelStartDay |-> safeTravelStartDay,
        travelEndDay |-> travelEndDay,
        totalDuration |-> totalDuration,
        top |-> resourceTop]

\* MissingRenderData with the test of step 1 added: a segment without
\* duration_days is skipped as well.
MissingRenderData_AlsoDuration(seg) ==
    \/ seg.start_day = Null
    \/ seg.resource_id = Null
    \/ seg.duration_days = Null
    \/ seg.start_hour_offset = Null
    \/ seg.segment_hours = Null

\* "Safety checks for required data" of the segment loop.
MissingRenderData(seg) ==
    \/ seg.start_day = Null
    \/ seg.resource_id = Null
    \/ seg.start_hour_offset = Null
    \/ seg.segment_hours = Null

\* SegmentLeft without the hour offset: every segment starts at the left
\* edge of its day column.
SegmentLeft_NoHourOffset(seg) ==
    LET baseLeft == (Max(1, Get(seg.start_day)) - 1) * DAY_WIDTH
    IN baseLeft * PxDen

\* SegmentLeft without the "- 1": day 1 starts one column to the right.
SegmentLeft_NoMinusOne(seg) ==
    LET baseLeft == Max(1, Get(seg.start_day)) * DAY_WIDTH
        hourOffsetPixels == Get(seg.start_hour_offset) * DAY_WIDTH
    IN (baseLeft * PxDen) + hourOffsetPixels

\* left of a segment, in 1/PxDen pixel:
\* (Math.max(1, start_day) - 1) * DAY_WIDTH
\*    + (start_hour_offset / DAILY_HOUR_LIMIT) * DAY_WIDTH
SegmentLeft(seg) ==
    LET baseLeft == (Max(1, Get(seg.start_day)) - 1) * DAY_WIDTH
        hourOffsetPixels == Get(seg.start_hour_offset) * DAY_WIDTH
    IN (baseLeft * PxDen) + hourOffsetPixels

\* SegmentWidth without the minimum width.
SegmentWidth_NoMinimum(seg) == Get(seg.segment_hours) * DAY_WIDTH

\* width of a segment, in 1/PxDen pixel:
\* Math.max((segment_hours / DAILY_HOUR_LIMIT) * DAY_WIDTH, 4)
SegmentWidth(seg) ==
    Max(Get(seg.segment_hours) * DAY_WIDTH, MIN_WIDTH * PxDen)

\* { ...seg, top, left, width, month, dayOfMonth }
TaskRenderInfo(seg, currentTop) ==
    LET pos == getDayPosition(Get(seg.start_day))
        extra == [top |-> currentTop,
                  left |-> SegmentLeft(seg),
                  width |-> SegmentWidth(seg),
                  month |-> pos.month,
                  dayOfMonth |-> pos.dayOfMonth]
    IN [f \in DOMAIN seg \cup DOMAIN extra |->
          IF f \in DOMAIN extra THEN extra[f] ELSE seg[f]]

\* The accumulator of step 2: currentTop and the arrays filled so far.
\* The body of machine.requirements.forEach.
LayoutSegment(acc, seg) ==
    IF MissingRenderData(seg)
    THEN [acc EXCEPT !.warnings = Append(@, seg.id)]
    ELSE [acc EXCEPT !.tasks = Append(@, TaskRenderInfo(seg, acc.currentTop))]

\* LayoutMachine without currentTop += MACHINE_ROW_HEIGHT: the machines of a
\* resource share one row.
LayoutMachine_NoRowAdvance(acc, machine) ==
    FoldLeft(LayoutSegment, acc, machine.requirements)

\* The body of group.machines.forEach.
LayoutMachine(acc, machine) ==
    [FoldLeft(LayoutSegment, acc, machine.requirements)
        EXCEPT !.currentTop = @ + MACHINE_ROW_HEIGHT]

\* The body of resourceGroups.forEach, resourceMinMax being acc.minMax.
LayoutGroup(acc, group) ==
    LET resourceTop == acc.currentTop
        acc1 == IF group.resourceId \in DOMAIN acc.minMax
                THEN [acc EXCEPT !.engagements =
                        Append(@, EngagementBar(group, acc.minMax[group.resourceId],
                                                resourceTop))]
                ELSE acc
        acc2 == [acc1 EXCEPT !.currentTop = @ + RESOURCE_HEADER_HEIGHT]
    IN FoldLeft(LayoutMachine, acc2, group.machines)

\* The memo { tasksToRender, totalEngagementBars } (and the warnings logged).
Layout(reqs, groups) ==
    FoldLeft(LayoutGroup,
             [currentTop |-> 0, tasks |-> << >>, engagements |-> << >>,
              warnings |-> << >>, minMax |-> ResourceMinMax(reqs)],
             groups)

\* ---------------------------------------------------------- render outcome

\* Outcome with the empty test not looking at the error.
Outcome_EmptyIgnoresError(isLoading, reqs, err) ==
    IF isLoading THEN "gantt-loading"
    ELSE IF ~isLoading /\ Len(reqs) = 0 THEN "gantt-empty"
    ELSE IF err # "" THEN "gantt-error"
    ELSE "gantt-container"

\* The "Loading/Error/Empty States" returns, else the chart.
Outcome(isLoading, reqs, err) ==
    IF isLoading THEN "gantt-loading"
    ELSE IF ~isLoading /\ Len(reqs) = 0 /\ err = "" THEN "gantt-empty"
    ELSE IF err # "" THEN "gantt-error"
    ELSE "gantt-container"

\* The elements the three refs point to exist while the chart is shown.
RefsPresent == rendered = "gantt-container"

\* The DOM after a render that returns `outcome`: the chart's elements are
\* kept (with their scroll position and the transforms written to them) when
\* the chart was shown and is shown again, and are new ones otherwise.
Dom(outcome) ==
    IF RefsPresent /\ outcome = "gantt-container"
    THEN UNCHANGED <<scrollLeft, scrollTop, headerTranslateX, listTranslateY,
                     scrollEventPending>>
    ELSE /\ scrollLeft' = 0
         /\ scrollTop' = 0
         /\ headerTranslateX' = 0
         /\ listTranslateY' = 0
         /\ scrollEventPending' = FALSE

\* A render of the component after its requirements prop changed: the memos
\* that depend on it are recomputed and the element returned is recorded.
Render(reqs, isLoading, err) ==
    \E groups \in ResourceGroupsOutcomes(reqs) :
        LET layout == Layout(reqs, groups)
        IN /\ resourceGroups' = groups
           /\ totalGridHeight' = TotalGridHeight(groups)
           /\ tasksToRender' = layout.tasks
           /\ totalEngagementBars' = layout.engagements
           /\ warnings' = layout.warnings
           /\ Dom(Outcome(isLoading, reqs, err))
           /\ rendered' = Outcome(isLoading, reqs, err)

\* A render after another prop changed: the memos keep their values
\* (requirements, their dependency, is the same array).
Rerender(isLoading, err) ==
    /\ UNCHANGED <<resourceGroups, totalGridHeight, tasksToRender,
                   totalEngagementBars, warnings>>
    /\ Dom(Outcome(isLoading, requirements, err))
    /\ rendered' = Outcome(isLoading, requirements, err)

\* The first render, with an empty segment collection.
FirstRender(isLoading, err) ==
    LET layout == Layout(<< >>, << >>)
    IN /\ requirements = << >>
       /\ loading = isLoading
       /\ error = err
       /\ resourceGroups = << >>
       /\ totalGridHeight = TotalGridHeight(<< >>)
       /\ tasksToRender = layout.tasks
       /\ totalEngagementBars = layout.engagements
       /\ warnings = layout.warnings
       /\ weekendDays = WeekendDays
       /\ scrollLeft = 0
       /\ scrollTop = 0
       /\ headerTranslateX = 0
       /\ listTranslateY = 0
       /\ scrollEventPending = FALSE
       /\ rendered = Outcome(isLoading, << >>, err)

\* ------------------------------------------------------------------ inputs

\* Bounds on the number of segments handed to the chart.
MaxSegments == 3
MaxHoursSegments == 2
MaxOrderSegments == 3
MaxPresenceSegments == 2
MaxSpanSegments == 2
MaxSingleSegments == 1
MaxPartitionSegments == 3
MaxCalendarSegments == 1
MaxScrollSegments == 1
MaxReorderSegments == 3

\* A ScheduledTaskSegment (src/utils/types.ts); id is set when it is added.
Segment(rid, rname, mname, cat, orig, total, sd, dur, off, segh) ==
    [id |-> 0,
     originalRequirementId |-> orig,
     resource_id |-> rid,
     resource_name |-> rname,
     machine_name |-> mname,
     resource_category |-> cat,
     segment_hours |-> segh,
     total_training_hours |-> total,
     start_day |-> sd,
     duration_days |-> dur,
     start_hour_offset |-> off]

\* Error messages of the caller ("" is no error).
Errors == { "", "Failed to load" }

\* Segments of the component's life cycle: a well-formed one, one without a
\* resource and one without an hour offset.
LifecycleSegs ==
    { Segment(rid, "Ann", "Drill", "Machine", Some(1), Some(4 * HourDen),
              Some(1), Some(1), off, Some(4 * HourDen)) :
        rid \in { Null, Some(1) }, off \in { Null, Some(0) } }
    \ { Segment(Null, "Ann", "Drill", "Machine", Some(1), Some(4 * HourDen),
                Some(1), Some(1), Null, Some(4 * HourDen)) }

\* Segments that vary in what the hour totals are computed from.
HoursSegs ==
    { Segment(Some(rid), "", mname, "Machine", orig, total,
              Some(1), Some(1), Some(0), Some(HourDen)) :
        rid \in { 1, 2 }, mname \in { "CAD", "Drill" },
        orig \in { Null, Some(1), Some(2) },
        total \in { Null, Some(4 * HourDen), Some(8 * HourDen) } }

\* Segments that vary in what the machines are ordered by: every name and
\* category for resource 1, and a Software/Unknown pair of names for
\* resource 2.
OrderSegs ==
    { Segment(Some(1), "", mname, cat, Null, Some(4 * HourDen),
              Some(1), Some(1), Some(0), Some(HourDen)) :
        mname \in { "CAD", "Drill", "Lathe" },
        cat \in { "", "Machine", "Software", "Unknown" } }
    \cup { Segment(Some(2), "", mname, cat, Null, Some(4 * HourDen),
                   Some(1), Some(1), Some(0), Some(HourDen)) :
             mname \in { "CAD", "Drill" }, cat \in { "Software", "Unknown" } }

\* Segments that vary in which of the fields read by the layout are present.
PresenceSegs ==
    { Segment(rid, "", "Drill", "Machine", Some(1), Some(4 * HourDen), sd, dur, off, segh) :
        rid \in { Null, Some(1), Some(2) },
        sd \in { Null, Some(2) },
        dur \in { Null, Some(1) },
        off \in { Null, Some(0) },
        segh \in { Null, Some(4 * HourDen) } }

\* Segments of one resource that vary in the days they cover.
SpanSegs ==
    { Segment(Some(1), "", "Drill", "Machine", Some(1), Some(4 * HourDen),
              sd, dur, off, Some(4 * HourDen)) :
        sd \in { Null, Some(0), Some(1), Some(3), Some(10) },
        dur \in { Null, Some(0), Some(1), Some(2) },
        off \in { Null, Some(0) } }

\* Segments that vary in the numbers the horizontal position is computed from
\* (hours in 1/HourDen hour).
SingleSegs ==
    { Segment(rid, "", "Drill", "Machine", Some(1), Some(4 * HourDen), sd, Some(1), off, segh) :
        rid \in { Null, Some(1) },
        sd \in { Null, Some(0), Some(1), Some(2), Some(31) },
        off \in { Null, Some(0), Some(4 * HourDen), Some((8 * HourDen) - 1), Some(8 * HourDen) },
        segh \in { Null, Some(1), Some(4 * HourDen), Some(9 * HourDen) } }

\* Segments that vary in the group they belong to: no resource or one of two,
\* and no machine name or one of two.
PartitionSegs ==
    { Segment(rid, "", mname, "Machine", Some(1), Some(4 * HourDen),
              Some(1), Some(1), Some(0), Some(4 * HourDen)) :
        rid \in { Null, Some(1), Some(2) },
        mname \in { "", "CAD", "Drill" } }

\* Segments that vary in the day they start on: the first two weeks, the
\* ends of months 1 and 2, the end of the timeline and the day after it.
CalendarDays == (0..14) \cup { 29, 30, 31, 35, 36, 60, 61, 359, 360, 361 }

CalendarSegs ==
    { Segment(Some(1), "", "Drill", "Machine", Some(1), Some(4 * HourDen),
              Some(sd), Some(1), Some(2 * HourDen), Some(4 * HourDen)) :
        sd \in CalendarDays }

\* Segments of two resources that vary in the start day and in the total
\* hours they carry for their task.
ReorderSegs ==
    { Segment(Some(rid), "", "Drill", "Machine", Some(1), total,
              Some(sd), Some(1), Some(0), Some(4 * HourDen)) :
        rid \in { 1, 2 }, sd \in { 1, 3, 6 },
        total \in { Some(4 * HourDen), Some(8 * HourDen) } }

\* ----------------------------------------------------------------- actions

\* The caller hands the chart a new requirements array.
SetRequirements(reqs) ==
    /\ requirements' = reqs
    /\ UNCHANGED <<loading, error, workOnSaturday, workOnSunday, weekendDays>>
    /\ UNCHANGED others
    /\ Render(reqs, loading, error)

\* The new array is the old one with one more segment.
AddSegment(seg, max) ==
    /\ Len(requirements) < max
    /\ SetRequirements(Append(requirements,
                              [seg EXCEPT !.id = Len(requirements) + 1]))

\* The caller's fetch starts or ends.
SetLoading ==
    /\ loading' = ~loading
    /\ UNCHANGED <<requirements, error, workOnSaturday, workOnSunday, weekendDays>>
    /\ UNCHANGED others
    /\ Rerender(~loading, error)

\* The caller reports an error, or clears it.
SetError ==
    \E err \in Errors \ { error } :
        /\ error' = err
        /\ UNCHANGED <<requirements, loading, workOnSaturday, workOnSunday, weekendDays>>
        /\ UNCHANGED others
        /\ Rerender(loading, err)

\* The caller toggles a working-weekend flag: isWeekend is a new callback.
SetWorkOnSaturday ==
    /\ workOnSaturday' = ~workOnSaturday
    /\ UNCHANGED <<requirements, loading, error, workOnSunday>>
    /\ weekendDays' = WeekendDays'
    /\ UNCHANGED others
    /\ Rerender(loading, error)

SetWorkOnSunday ==
    /\ workOnSunday' = ~workOnSunday
    /\ UNCHANGED <<requirements, loading, error, workOnSaturday>>
    /\ weekendDays' = WeekendDays'
    /\ UNCHANGED others
    /\ Rerender(loading, error)

ReceiveSegment == \E seg \in LifecycleSegs : AddSegment(seg, MaxSegments)

\* Scroll positions the browser reports for the grid: 0, positive ones, and a
\* negative one (an overscrolled container, or a right-to-left one, reports
\* negative positions).
ScrollPositions == { -20, 0, 30, 60 }

\* The translation a transform of `translateX(-${position}px)` (or
\* translateY) gives: minus the position when the text is a length, none
\* when it is not ("--20px" for the position -20 is not a length).
Translation(position) ==
    IF position >= 0 THEN Some(0 - position) ELSE Null

\* element.style.transform = text: a declaration that does not parse is
\* ignored and the element keeps its transform.
SetTransform(old, translation) ==
    IF translation = Null THEN old ELSE Get(translation)

\* The user (or the browser) scrolls the grid: the position changes and a
\* scroll event is queued for the container.
UserScroll ==
    /\ RefsPresent
    /\ \E x \in ScrollPositions, y \in ScrollPositions :
          /\ <<x, y>> # <<scrollLeft, scrollTop>>
          /\ scrollLeft' = x
          /\ scrollTop' = y
    /\ scrollEventPending' = TRUE
    /\ UNCHANGED <<props, layoutData, headerTranslateX, listTranslateY, others>>

\* handleScroll, run for the queued scroll event.
handleScroll ==
    /\ scrollEventPending
    /\ scrollEventPending' = FALSE
    /\ IF RefsPresent
       THEN /\ headerTranslateX' = SetTransform(headerTranslateX, Translation(scrollLeft))
            /\ listTranslateY' = SetTransform(listTranslateY, Translation(scrollTop))
       ELSE UNCHANGED <<headerTranslateX, listTranslateY>>
    /\ UNCHANGED <<props, layoutData, scrollLeft, scrollTop, others>>

\* -------------------------------------------------------- useTrainingTopics

\* Bound on the number of selects the hook sends.
MaxFetches == 3

\* The selections the hook is called with.
Selections == { << >>, << 1 >>, << 2 >>, << 1, 2 >> }

\* The rows of training_topics before anything is added: a topic of machine
\* type 1 and a topic of machine type 2.
InitialTopics ==
    << [topic_id |-> 1, topic_text |-> "Safety", machine_type_id |-> 1],
       [topic_id |-> 2, topic_text |-> "Setup", machine_type_id |-> 2] >>

\* select("*").in("machine_type_id", ids).order("display_order")
SelectTopics(table, ids) ==
    SelectSeq(table, LAMBDA row : \E i \in DOMAIN ids : ids[i] = row.machine_type_id)

\* The hook after its first render with an empty selection and the run of
\* its effect: fetchTopics took its first branch.
TopicsInit ==
    /\ selectedMachineIds = << >>
    /\ topics = << >>
    /\ topicsLoading = FALSE
    /\ topicsError = ""
    /\ fetchesInFlight = {}
    /\ fetchesStarted = 0
    /\ training_topics = InitialTopics
    /\ newTopic = ""
    /\ isAddingTopic = FALSE
    /\ addCall = Null
    /\ addReturned = Null
    /\ addsStarted = 0

\* The hook is rendered with another selection: fetchTopics is a new callback
\* and the effect runs it, up to its await.
SelectMachines ==
    \E ids \in Selections \ { selectedMachineIds } :
        /\ selectedMachineIds' = ids
        /\ IF Len(ids) = 0
           THEN /\ topics' = << >>
                /\ topicsLoading' = FALSE
                /\ UNCHANGED <<topicsError, fetchesInFlight, fetchesStarted>>
           ELSE /\ fetchesStarted < MaxFetches
                /\ topicsLoading' = TRUE
                /\ topicsError' = ""
                /\ fetchesInFlight' = fetchesInFlight
                      \cup { [request |-> fetchesStarted + 1, ids |-> ids] }
                /\ fetchesStarted' = fetchesStarted + 1
                /\ UNCHANGED topics
        /\ UNCHANGED <<training_topics, adding, besidesHook>>

\* A select is answered with rows: fetchTopics goes on after its await.
FetchAnswered ==
    \E fetch \in fetchesInFlight :
        /\ fetchesInFlight' = fetchesInFlight \ { fetch }
        /\ topics' = SelectTopics(training_topics, fetch.ids)
        /\ topicsLoading' = FALSE
        /\ UNCHANGED <<selectedMachineIds, topicsError, fetchesStarted,
                       training_topics, adding, besidesHook>>

\* A select is answered with an error: the catch and the finally blocks.
FetchFailed ==
    \E fetch \in fetchesInFlight :
        /\ fetchesInFlight' = fetchesInFlight \ { fetch }
        /\ topicsError' = "Failed to load training topics"
        /\ topicsLoading' = FALSE
        /\ UNCHANGED <<selectedMachineIds, topics, fetchesStarted,
                       training_topics, adding, besidesHook>>

\* Bound on the number of calls of addTopic.
MaxAdds == 2

\* The texts addTopic is called with and the input field is set to: the
\* empty text, a text of blanks, and a topic.
TopicTexts == { "", "  ", "Wiring" }

\* newTopicText.trim() on these texts.
Trim(text) == IF text = "  " THEN "" ELSE text

\* What is left of the fetching part of the hook by the adding part.
fetching == <<selectedMachineIds, topicsLoading, topicsError,
              fetchesInFlight, fetchesStarted>>

\* setNewTopic, which the hook returns, called with the text typed.
setNewTopic ==
    \E text \in TopicTexts \ { newTopic } :
        /\ newTopic' = text
        /\ UNCHANGED <<fetching, topics, training_topics, isAddingTopic,
                       addCall, addReturned, addsStarted, besidesHook>>

\* The promise of one insert before its answer.
PendingInsert == [answered |-> FALSE, data |-> Null]

\* addTopic(newTopicText) up to await Promise.all: a blank text returns
\* false at once, any other sends one insert per selected machine. The call
\* remembers how many rows the table had (rowsBefore), which the code does
\* not: the properties of the call are stated with it.
addTopic ==
    \E newTopicText \in TopicTexts :
        /\ addCall = Null
        /\ addsStarted < MaxAdds
        /\ addsStarted' = addsStarted + 1
        /\ IF Trim(newTopicText) = ""
           THEN /\ addReturned' = Some(FALSE)
                /\ UNCHANGED <<isAddingTopic, addCall>>
           ELSE /\ isAddingTopic' = TRUE
                /\ addCall' = Some([topic_text |-> newTopicText,
                                    machineIds |-> selectedMachineIds,
                                    rowsBefore |-> Len(training_topics),
                                    results |-> [i \in DOMAIN selectedMachineIds
                                                   |-> PendingInsert]])
                /\ addReturned' = Null
        /\ UNCHANGED <<fetching, topics, training_topics, newTopic, besidesHook>>

\* The insert for the i-th machine of the call is answered with the new row.
InsertAnswered ==
    /\ addCall # Null
    /\ \E i \in DOMAIN Get(addCall).results :
          LET call == Get(addCall)
              data == [topic_id |-> Len(training_topics) + 1,
                       topic_text |-> call.topic_text,
                       machine_type_id |-> call.machineIds[i]]
          IN /\ ~call.results[i].answered
             /\ training_topics' = Append(training_topics, data)
             /\ addCall' = Some([call EXCEPT !.results[i] =
                                   [answered |-> TRUE, data |-> Some(data)]])
    /\ UNCHANGED <<fetching, topics, newTopic, isAddingTopic, addReturned,
                   addsStarted, besidesHook>>

\* The insert for the i-th machine is answered with an error: return null.
InsertFailed ==
    /\ addCall # Null
    /\ \E i \in DOMAIN Get(addCall).results :
          LET call == Get(addCall)
          IN /\ ~call.results[i].answered
             /\ addCall' = Some([call EXCEPT !.results[i] =
                                   [answered |-> TRUE, data |-> Null]])
    /\ UNCHANGED <<fetching, topics, training_topics, newTopic, isAddingTopic,
                   addReturned, addsStarted, besidesHook>>

\* results.filter(topic => topic !== null)
SuccessfulTopics(results) ==
    LET kept == SelectSeq(results, LAMBDA result : result.data # Null)
    IN [i \in DOMAIN kept |-> Get(kept[i].data)]

\* setTopics(prevTopics => [...prevTopics, ...successfulTopics])
AppendTopics_Replace(prevTopics, successfulTopics) == successfulTopics

AppendTopics(prevTopics, successfulTopics) == prevTopics \o successfulTopics

\* Every insert of the call is answered: addTopic goes on after
\* await Promise.all, returns, and its finally block runs.
AddTopicSettled ==
    /\ addCall # Null
    /\ \A i \in DOMAIN Get(addCall).results : Get(addCall).results[i].answered
    /\ LET successfulTopics == SuccessfulTopics(Get(addCall).results)
       IN IF Len(successfulTopics) > 0
          THEN /\ topics' = AppendTopics(topics, successfulTopics)
               /\ newTopic' = ""
               /\ addReturned' = Some(TRUE)
          ELSE /\ addReturned' = Some(FALSE)
               /\ UNCHANGED <<topics, newTopic>>
    /\ isAddingTopic' = FALSE
    /\ addCall' = Null
    /\ UNCHANGED <<fetching, training_topics, addsStarted, besidesHook>>

\* ---------------------------------------------------------- MachineSelector

\* Bound on the number of calls of updatePlanningDetails.
MaxRuns == 2

\* The machine types shown and the training plans of useTrainingPlans.
MachineTypes == { 1, 2 }
plans == << 1 >>

\* A call of updatePlanningDetails(machineIds) before its first await. pc
\* names the request the call is waiting for; detailIds are the rows still to
\* delete, pairs the (machine, plan) pairs still to process.
NewRun(machineIds) ==
    [machineIds |-> machineIds, pc |-> "offers", detailIds |-> << >>,
     pairs |-> << >>, existingDetail |-> Null]

\* The elements of a set of numbers in ascending order.
RECURSIVE Ascending(_)
Ascending(S) ==
    IF S = {} THEN << >>
    ELSE LET least == CHOOSE x \in S : \A y \in S : x <= y
         IN << least >> \o Ascending(S \ { least })

\* for (const machineId of machineIds) for (const plan of plans): the pairs
\* in the order of the two loops.
RECURSIVE PairsOf(_)
PairsOf(machineIds) ==
    IF machineIds = << >> THEN << >>
    ELSE [p \in DOMAIN plans |-> << Head(machineIds), plans[p] >>]
            \o PairsOf(Tail(machineIds))

\* The selector, mounted with a quote id, the plans loaded and one of the
\* given selections: if it is not empty the mount effect has called
\* updatePlanningDetails for it.
SelectorMounted(selections) ==
    /\ selectorMachineIds \in selections
    /\ planning_details = {}
    /\ runs = IF selectorMachineIds = << >> THEN << >>
              ELSE << NewRun(selectorMachineIds) >>
    /\ detailsInserted = 0
    /\ backendError = FALSE

\* The selector mounted with nothing selected.
SelectorInit == SelectorMounted({ << >> })

\* toggleMachineSelection(machineTypeId), up to the first await of
\* updatePlanningDetails: onSave hands the new selection to the parent.
toggleMachineSelection ==
    \E machineTypeId \in MachineTypes :
        LET updatedSelection ==
                IF \E i \in DOMAIN selectorMachineIds :
                       selectorMachineIds[i] = machineTypeId
                THEN SelectSeq(selectorMachineIds, LAMBDA id : id # machineTypeId)
                ELSE Append(selectorMachineIds, machineTypeId)
        IN /\ Len(runs) < MaxRuns
           /\ selectorMachineIds' = updatedSelection
           /\ runs' = Append(runs, NewRun(updatedSelection))
           /\ UNCHANGED <<planning_details, detailsInserted, backendError,
                          besidesSelector>>

\* Where a run goes on after the deletions, and after a pair is processed.
AfterDeletes(run) ==
    IF run.detailIds # << >> THEN [run EXCEPT !.pc = "delete"]
    ELSE IF run.pairs # << >> THEN [run EXCEPT !.pc = "check"]
    ELSE [run EXCEPT !.pc = "done"]

NextPair(run) ==
    AfterDeletes([run EXCEPT !.pairs = Tail(@), !.existingDetail = Null])

\* The rows of the quote of a machine and plan.
DetailsOf(machineId, planId) ==
    { row \in planning_details :
        row.machine_types_id = machineId /\ row.plan_id = planId }

\* The request run r waits for is answered without error.
RequestAnswered(r) ==
    LET run == runs[r]
    IN /\ run.pc # "done"
       /\ UNCHANGED <<selectorMachineIds, backendError, besidesSelector>>
       /\ CASE run.pc = "offers" ->
                 /\ runs' = [runs EXCEPT ![r].pc = "requirements"]
                 /\ UNCHANGED <<planning_details, detailsInserted>>
            [] run.pc = "requirements" ->
                 /\ runs' = [runs EXCEPT ![r].pc = "existing"]
                 /\ UNCHANGED <<planning_details, detailsInserted>>
            [] run.pc = "existing" ->
                 LET detailsToDelete ==
                         { row \in planning_details :
                             \A i \in DOMAIN run.machineIds :
                                 run.machineIds[i] # row.machine_types_id }
                 IN /\ runs' = [runs EXCEPT ![r] = AfterDeletes(
                                   [run EXCEPT
                                      !.detailIds = Ascending({ row.id : row \in detailsToDelete }),
                                      !.pairs = PairsOf(run.machineIds)])]
                    /\ UNCHANGED <<planning_details, detailsInserted>>
            [] run.pc = "delete" ->
                 /\ planning_details' =
                       { row \in planning_details : row.id # Head(run.detailIds) }
                 /\ runs' = [runs EXCEPT ![r] = AfterDeletes(
                                [run EXCEPT !.detailIds = Tail(@)])]
                 /\ UNCHANGED detailsInserted
            [] run.pc = "check" ->
                 LET found == DetailsOf(Head(run.pairs)[1], Head(run.pairs)[2])
                 IN /\ Cardinality(found) <= 1
                    /\ runs' = [runs EXCEPT ![r] =
                          IF found = {}
                          THEN [run EXCEPT !.pc = "insert"]
                          ELSE [run EXCEPT !.pc = "update",
                                           !.existingDetail =
                                              Some((CHOOSE row \in found : TRUE).id)]]
                    /\ UNCHANGED <<planning_details, detailsInserted>>
            [] run.pc = "insert" ->
                 /\ planning_details' = planning_details \cup
                       { [id |-> detailsInserted + 1,
                          plan_id |-> Head(run.pairs)[2],
                          machine_types_id |-> Head(run.pairs)[1]] }
                 /\ detailsInserted' = detailsInserted + 1
                 /\ runs' = [runs EXCEPT ![r] = NextPair(run)]
            [] run.pc = "update" ->
                 /\ runs' = [runs EXCEPT ![r] = NextPair(run)]
                 /\ UNCHANGED <<planning_details, detailsInserted>>

\* The request run r waits for is answered with an error: the run is over
\* (throw, then the outer catch) unless the request is a delete, an insert or
\* an update, whose errors are logged only. maybeSingle answers the check
\* with an error when it finds more than one row.
RequestFailed(r) ==
    LET run == runs[r]
    IN /\ run.pc # "done"
       /\ backendError' = TRUE
       /\ runs' = [runs EXCEPT ![r] =
             CASE run.pc = "delete" -> AfterDeletes([run EXCEPT !.detailIds = Tail(@)])
               [] run.pc \in { "insert", "update" } -> NextPair(run)
               [] OTHER -> [run EXCEPT !.pc = "done"]]
       /\ UNCHANGED <<selectorMachineIds, planning_details, detailsInserted,
                      besidesSelector>>

\* ------------------------------------------------------------- PrivateRoute

\* Bound on the entries of the router.
MaxHistory == 3

\* The users that sign in, the paths of the application, and those of its
\* routes that are wrapped in PrivateRoute.
Users == { 1, 2 }
Paths == { "/", "/home", "/quote/1/config" }
PrivatePaths == Paths \ { "/" }

\* What a component returns: an element, and for Navigate its props.
Element(name) == [element |-> name, to |-> "", replace |-> FALSE]
NavigateTo(path) == [element |-> "Navigate", to |-> path, replace |-> TRUE]
NotRendered == Element("")

\* PrivateRoute({ children }) for the values useAuth returns.
PrivateRoute_UserFirst(authUser, authIsLoading) ==
    IF authUser = Null THEN NavigateTo("/")
    ELSE IF authIsLoading THEN Element("div")
    ELSE Element("children")

PrivateRoute(authUser, authIsLoading) ==
    IF authIsLoading THEN Element("div")
    ELSE IF authUser = Null THEN NavigateTo("/")
    ELSE Element("children")

\* The element of the route matching the location.
RouteOf(entries, authUser, authIsLoading) ==
    IF entries[Len(entries)] \in PrivatePaths
    THEN PrivateRoute(authUser, authIsLoading)
    ELSE NotRendered

\* The application opened at one of the given paths while the session is
\* being read.
RouteOpened(paths) ==
    /\ user = Null
    /\ authLoading = TRUE
    /\ \E path \in paths : history = << path >>
    /\ routeElement = RouteOf(history, user, authLoading)

\* The application opened at its public path.
RouteInit == RouteOpened({ "/" })

\* The authentication context changes and its consumers render again.
AuthChanged ==
    \E authUser \in { Null } \cup { Some(u) : u \in Users }, authIsLoading \in BOOLEAN :
        /\ << authUser, authIsLoading >> # << user, authLoading >>
        /\ user' = authUser
        /\ authLoading' = authIsLoading
        /\ routeElement' = RouteOf(history, authUser, authIsLoading)
        /\ UNCHANGED <<history, besidesRoute>>

\* navigate(path) from a link or a page: a new entry, and the route matching
\* it is rendered.
NavigatePush ==
    \E path \in Paths :
        /\ Len(history) < MaxHistory
        /\ routeElement.element # "Navigate"
        /\ history' = Append(history, path)
        /\ routeElement' = RouteOf(history', user, authLoading)
        /\ UNCHANGED <<user, authLoading, besidesRoute>>

\* The effect of <Navigate to replace />: the location is replaced.
NavigateEffect ==
    /\ routeElement.element = "Navigate"
    /\ history' = [history EXCEPT ![Len(history)] = routeElement.to]
    /\ routeElement' = RouteOf(history', user, authLoading)
    /\ UNCHANGED <<user, authLoading, besidesRoute>>

\* ------------------------------------------------------------ AreaCostModal

\* Bound on the number of calls of handleSave.
MaxSaves == 3

\* The area names submitted.
AreaNames == { "North", "South" }

\* The rows of area_costs before anything is saved.
InitialAreaCosts == { [area_cost_id |-> 1, area_id |-> 1, area_name |-> "North"] }

ModalInit ==
    /\ area_costs = InitialAreaCosts
    /\ isSaving = FALSE
    /\ saveCall = Null
    /\ savesStarted = 0
    /\ onSaveCalls = 0
    /\ onCloseCalls = 0

\* The rows the query of checkAreaNameExists(name, currentAreaId) matches:
\* .eq("area_name", name), and .neq("area_id", currentAreaId) when
\* currentAreaId is neither undefined nor 0.
MatchingAreas(table, name, currentAreaId) ==
    { row \in table :
        /\ row.area_name = name
        /\ (currentAreaId # Null /\ Get(currentAreaId) # 0)
              => row.area_id # Get(currentAreaId) }

\* What checkAreaNameExists returns for an answered query: maybeSingle
\* reports an error for more than one row, and the catch returns false.
checkAreaNameExists(table, name, currentAreaId) ==
    Cardinality(MatchingAreas(table, name, currentAreaId)) = 1

\* handleSave(values) up to its first await, for a modal that creates an
\* area (areaCost is null) or edits a row. The call remembers what it sent
\* and called (wrote, saved, closed).
handleSave ==
    \E areaName \in AreaNames,
       areaCost \in { Null } \cup { Some(row) : row \in area_costs } :
        /\ ~isSaving
        /\ savesStarted < MaxSaves
        /\ savesStarted' = savesStarted + 1
        /\ isSaving' = TRUE
        /\ saveCall' = Some([areaName |-> areaName, areaCost |-> areaCost,
                             pc |-> "check", nameExists |-> Null,
                             nextId |-> Null, wrote |-> FALSE,
                             saved |-> FALSE, closed |-> FALSE])
        /\ UNCHANGED <<area_costs, onSaveCalls, onCloseCalls, besidesModal>>

\* Where handleSave goes after the check: it returns when the name exists.
AfterCheck_NoReturn(call, nameExists) ==
    IF call.areaCost # Null
    THEN [call EXCEPT !.nameExists = Some(nameExists),
                      !.pc = "update", !.wrote = TRUE]
    ELSE [call EXCEPT !.nameExists = Some(nameExists), !.pc = "maxId"]

AfterCheck(call, nameExists) ==
    IF nameExists
    THEN [call EXCEPT !.nameExists = Some(nameExists), !.pc = "done"]
    ELSE IF call.areaCost # Null
    THEN [call EXCEPT !.nameExists = Some(nameExists),
                      !.pc = "update", !.wrote = TRUE]
    ELSE [call EXCEPT !.nameExists = Some(nameExists), !.pc = "maxId"]

\* The query of checkAreaNameExists is answered, with rows or with an
\* error, for which it returns false.
CheckAnswered ==
    \E answered \in BOOLEAN :
        /\ saveCall # Null
        /\ Get(saveCall).pc = "check"
        /\ LET call == Get(saveCall)
               nameExists ==
                   /\ answered
                   /\ checkAreaNameExists(area_costs, call.areaName,
                         IF call.areaCost = Null THEN Null
                         ELSE Some(Get(call.areaCost).area_id))
               next == AfterCheck(call, nameExists)
           IN /\ saveCall' = Some(next)
              /\ isSaving' = (next.pc # "done")
        /\ UNCHANGED <<area_costs, savesStarted, onSaveCalls, onCloseCalls,
                       besidesModal>>

\* The end of handleSave after its write succeeded: onSave(), onClose() and
\* the finally block.
Saved(call) ==
    /\ saveCall' = Some([call EXCEPT !.pc = "done", !.saved = TRUE,
                                     !.closed = TRUE])
    /\ onSaveCalls' = onSaveCalls + 1
    /\ onCloseCalls' = onCloseCalls + 1
    /\ isSaving' = FALSE

\* The end of handleSave after a request failed: throw, catch and finally.
Thrown(call) ==
    /\ saveCall' = Some([call EXCEPT !.pc = "done"])
    /\ isSaving' = FALSE
    /\ UNCHANGED <<area_costs, onSaveCalls, onCloseCalls>>

\* The update of the edited row is answered.
UpdateAnswered ==
    \E answered \in BOOLEAN :
        /\ saveCall # Null
        /\ Get(saveCall).pc = "update"
        /\ LET call == Get(saveCall)
           IN IF answered
              THEN /\ area_costs' =
                         { IF row.area_cost_id = Get(call.areaCost).area_cost_id
                           THEN [row EXCEPT !.area_name = call.areaName]
                           ELSE row : row \in area_costs }
                   /\ Saved(call)
              ELSE Thrown(call)
        /\ UNCHANGED <<savesStarted, besidesModal>>

\* The select of the greatest area_id is answered: nextId, and the insert is
\* sent.
MaxIdAnswered ==
    \E answered \in BOOLEAN :
        /\ saveCall # Null
        /\ Get(saveCall).pc = "maxId"
        /\ LET call == Get(saveCall)
               ids == { row.area_id : row \in area_costs }
               nextId == IF ids # {}
                         THEN (CHOOSE id \in ids : \A other \in ids : other <= id) + 1
                         ELSE 1
           IN IF answered
              THEN /\ saveCall' = Some([call EXCEPT !.pc = "insert",
                                                    !.nextId = Some(nextId),
                                                    !.wrote = TRUE])
                   /\ UNCHANGED <<area_costs, isSaving, onSaveCalls, onCloseCalls>>
              ELSE Thrown(call)
        /\ UNCHANGED <<savesStarted, besidesModal>>

\* The insert is answered.
InsertAreaAnswered ==
    \E answered \in BOOLEAN :
        /\ saveCall # Null
        /\ Get(saveCall).pc = "insert"
        /\ LET call == Get(saveCall)
           IN IF answered
              THEN /\ area_costs' = area_costs \cup
                         { [area_cost_id |-> Cardinality(area_costs) + 1,
                            area_id |-> Get(call.nextId),
                            area_name |-> call.areaName] }
                   /\ Saved(call)
              ELSE Thrown(call)
        /\ UNCHANGED <<savesStarted, besidesModal>>

\* The components other than the chart, as they are when first rendered.
OthersInit == TopicsInit /\ SelectorInit /\ RouteInit /\ ModalInit

\* The chart before it is given anything, in the specifications of the other
\* components.
GanttInit ==
    /\ workOnSaturday = FALSE
    /\ workOnSunday = FALSE
    /\ FirstRender(TRUE, "")

\* ---------------------------------------------------------- specifications

\* The component with all its props changing.
Init ==
    /\ workOnSaturday = FALSE
    /\ workOnSunday = FALSE
    /\ FirstRender(TRUE, "")
    /\ OthersInit

Next ==
    \/ ReceiveSegment
    \/ SetLoading
    \/ SetError
    \/ SetWorkOnSaturday
    \/ SetWorkOnSunday

Spec == Init /\ [][Next]_vars

\* The layout as a function of the segments: the chart is shown (not loading,
\* no error) and the segments are drawn from one of the input sets above.
InitLayout ==
    /\ workOnSaturday = FALSE
    /\ workOnSunday = FALSE
    /\ FirstRender(FALSE, "")
    /\ OthersInit

ReceiveHoursSegment == \E seg \in HoursSegs : AddSegment(seg, MaxHoursSegments)
SpecHours == InitLayout /\ [][ReceiveHoursSegment]_vars

ReceiveOrderSegment == \E seg \in OrderSegs : AddSegment(seg, MaxOrderSegments)
SpecOrder == InitLayout /\ [][ReceiveOrderSegment]_vars

ReceivePresenceSegment == \E seg \in PresenceSegs : AddSegment(seg, MaxPresenceSegments)
SpecPresence == InitLayout /\ [][ReceivePresenceSegment]_vars

ReceiveSpanSegment == \E seg \in SpanSegs : AddSegment(seg, MaxSpanSegments)
SpecSpan == InitLayout /\ [][ReceiveSpanSegment]_vars

ReceiveSingleSegment == \E seg \in SingleSegs : AddSegment(seg, MaxSingleSegments)
SpecSingle == InitLayout /\ [][ReceiveSingleSegment]_vars

ReceivePartitionSegment == \E seg \in PartitionSegs : AddSegment(seg, MaxPartitionSegments)
SpecPartition == InitLayout /\ [][ReceivePartitionSegment]_vars

\* The calendar of the chart: segments that start on different days, and the
\* two working-weekend flags.
ReceiveCalendarSegment == \E seg \in CalendarSegs : AddSegment(seg, MaxCalendarSegments)

NextCalendar ==
    \/ ReceiveCalendarSegment
    \/ SetWorkOnSaturday
    \/ SetWorkOnSunday

SpecCalendar == InitLayout /\ [][NextCalendar]_vars

\* The chart being scrolled: a segment arrives, loading starts and ends, and
\* the grid is scrolled.
ReceiveScrollSegment == \E seg \in LifecycleSegs : AddSegment(seg, MaxScrollSegments)

NextScroll ==
    \/ ReceiveScrollSegment
    \/ SetLoading
    \/ UserScroll
    \/ handleScroll

SpecScroll == InitLayout /\ [][NextScroll]_vars

ReceiveReorderSegment == \E seg \in ReorderSegs : AddSegment(seg, MaxReorderSegments)
SpecReorder == InitLayout /\ [][ReceiveReorderSegment]_vars

\* The hook with its selection changing and its selects being answered in
\* any order.
NextTopics ==
    \/ SelectMachines
    \/ FetchAnswered
    \/ FetchFailed

InitOthers == GanttInit /\ OthersInit

SpecTopics == InitOthers /\ [][NextTopics]_vars

\* The hook rendered with a selection, its select answered or still in
\* flight, and nothing added yet.
InitAddTopic ==
    /\ GanttInit
    /\ SelectorInit
    /\ RouteInit
    /\ ModalInit
    /\ selectedMachineIds \in Selections
    /\ training_topics = InitialTopics
    /\ topicsError = ""
    /\ \/ /\ topics = SelectTopics(training_topics, selectedMachineIds)
          /\ topicsLoading = FALSE
          /\ fetchesInFlight = {}
          /\ fetchesStarted = IF selectedMachineIds = << >> THEN 0 ELSE 1
       \/ /\ selectedMachineIds # << >>
          /\ topics = << >>
          /\ topicsLoading = TRUE
          /\ fetchesInFlight = { [request |-> 1, ids |-> selectedMachineIds] }
          /\ fetchesStarted = 1
    /\ newTopic = ""
    /\ isAddingTopic = FALSE
    /\ addCall = Null
    /\ addReturned = Null
    /\ addsStarted = 0

\* The hook with topics being added while its select may still be in flight.
NextAddTopic ==
    \/ FetchAnswered
    \/ FetchFailed
    \/ setNewTopic
    \/ addTopic
    \/ InsertAnswered
    \/ InsertFailed
    \/ AddTopicSettled

SpecAddTopic == InitAddTopic /\ [][NextAddTopic]_vars

\* The selector with its machines being toggled while earlier calls of
\* updatePlanningDetails are still waiting for the backend.
NextSelector ==
    \/ toggleMachineSelection
    \/ \E r \in DOMAIN runs : RequestAnswered(r)
    \/ \E r \in DOMAIN runs : RequestFailed(r)

\* The selector mounted with nothing selected or with machine 1 selected.
InitSelector ==
    /\ GanttInit
    /\ TopicsInit
    /\ SelectorMounted({ << >>, << 1 >> })
    /\ RouteInit
    /\ ModalInit

SpecSelector == InitSelector /\ [][NextSelector]_vars

\* The router and the authentication context around PrivateRoute.
NextRoute ==
    \/ AuthChanged
    \/ NavigatePush
    \/ NavigateEffect

\* The application opened at any of its paths.
InitRoute ==
    GanttInit /\ TopicsInit /\ SelectorInit /\ RouteOpened(Paths) /\ ModalInit

SpecRoute == InitRoute /\ [][NextRoute]_vars

\* The modal saving areas, one call of handleSave after the other.
NextModal ==
    \/ handleSave
    \/ CheckAnswered
    \/ UpdateAnswered
    \/ MaxIdAnswered
    \/ InsertAreaAnswered

SpecModal == InitOthers /\ [][NextModal]_vars

\* ------------------------------------------------------------------ claims

\* The sum of F(x) over the elements x of the finite set S.
RECURSIVE SumOver(_, _)
SumOver(F(_), S) ==
    IF S = {} THEN 0
    ELSE LET x == CHOOSE y \in S : TRUE IN F(x) + SumOver(F, S \ {x})

\* The positions in the input of the segments of resource rid.
PositionsOf(rid) ==
    { i \in 1..Len(requirements) : requirements[i].resource_id = Some(rid) }

\* The positions in the input of the segments of task t of resource rid, and
\* of those among them that belong to the item (machine) called name.
TaskPositions(rid, t) ==
    { i \in PositionsOf(rid) : requirements[i].originalRequirementId = Some(t) }
ItemTaskPositions(rid, name, t) ==
    { i \in TaskPositions(rid, t) : MachineName(requirements[i]) = name }

\* The total hours the first of the segments at positions P carries (0 when it
\* carries none).
FirstTotalHours(P) ==
    LET first == CHOOSE i \in P : \A j \in P : i <= j
    IN IF requirements[first].total_training_hours = Null THEN 0
       ELSE Get(requirements[first].total_training_hours)

\* The tasks, and the (item, task) pairs, present among the segments of rid.
TasksOf(rid) ==
    { Get(requirements[i].originalRequirementId) :
        i \in { j \in PositionsOf(rid) : requirements[j].originalRequirementId # Null } }
ItemTasksOf(rid) ==
    { << MachineName(requirements[i]), Get(requirements[i].originalRequirementId) >> :
        i \in { j \in PositionsOf(rid) : requirements[j].originalRequirementId # Null } }

\* The sum over the items of a resource group of their displayHours.
ItemHoursSum(group) ==
    SumOver(LAMBDA k : group.machines[k].displayHours, 1..Len(group.machines))

\* Whether the segments of each task of resource rid agree on the task's total
\* hours, and carry some.
TotalsAgree(rid) ==
    \A i, j \in PositionsOf(rid) :
        /\ requirements[i].total_training_hours # Null
        /\ (requirements[i].originalRequirementId = requirements[j].originalRequirementId
              => requirements[i].total_training_hours =
                    requirements[j].total_training_hours)

\* C1 as stated: for every resource group, the sum of the items' displayHours
\* is the sum of the total hours of the distinct tasks present among the
\* resource's segments, each task counted once, also when its segments appear
\* under more than one item of the resource. (Stated for the inputs in which
\* the segments of a task agree on its total hours, where "the total hours of
\* a task" has one meaning only.)
C1_EachTaskOncePerResource ==
    \A g \in 1..Len(resourceGroups) :
        TotalsAgree(resourceGroups[g].resourceId) =>
            ItemHoursSum(resourceGroups[g]) =
                SumOver(LAMBDA t : FirstTotalHours(
                                       TaskPositions(resourceGroups[g].resourceId, t)),
                        TasksOf(resourceGroups[g].resourceId))

\* C1 as amended: for every resource group, the sum of the items' displayHours
\* is the sum of the total hours of the distinct tasks present among the
\* segments of each item, a task being counted once for every item of the
\* resource under which it has segments (and so exactly once when all its
\* segments are under one item, however many they are).
C1_EachTaskOncePerItem ==
    \A g \in 1..Len(resourceGroups) :
        ItemHoursSum(resourceGroups[g]) =
            SumOver(LAMBDA it : FirstTotalHours(
                                    ItemTaskPositions(resourceGroups[g].resourceId,
                                                      it[1], it[2])),
                    ItemTasksOf(resourceGroups[g].resourceId))

\* C1 witness: a resource has an item holding two segments of one task with
\* hours, which the item's displayHours count once.
C1_Witness ==
    \E g \in 1..Len(resourceGroups) :
        \E k \in 1..Len(resourceGroups[g].machines) :
            LET m == resourceGroups[g].machines[k]
            IN /\ Len(m.requirements) = 2
               /\ m.requirements[1].originalRequirementId # Null
               /\ m.requirements[1].originalRequirementId =
                     m.requirements[2].originalRequirementId
               /\ m.requirements[1].total_training_hours = Some(4 * HourDen)
               /\ m.displayHours = 4 * HourDen

ValidSegment(seg) ==
    /\ seg.resource_id # Null
    /\ seg.start_day # Null
    /\ seg.start_hour_offset # Null
    /\ seg.segment_hours # Null

\* The entries of tasksToRender made from the input segment numbered id.
TasksOfSegment(id) == { k \in 1..Len(tasksToRender) : tasksToRender[k].id = id }

\* C3: tasksToRender holds exactly one entry for every valid input segment and
\* none for an invalid one, whatever the other segments of the input are; and
\* it holds nothing else.
C3_OneTaskPerValidSegment ==
    /\ \A i \in 1..Len(requirements) :
          Cardinality(TasksOfSegment(requirements[i].id)) =
              IF ValidSegment(requirements[i]) THEN 1 ELSE 0
    /\ \A k \in 1..Len(tasksToRender) :
          \E i \in 1..Len(requirements) : tasksToRender[k].id = requirements[i].id

\* C3 witness: a resource has a segment without startHourOffset and a valid
\* one, and exactly the valid one is rendered.
C3_Witness ==
    /\ Len(requirements) = 2
    /\ requirements[1].resource_id = Some(1)
    /\ requirements[1].start_day # Null
    /\ requirements[1].segment_hours # Null
    /\ requirements[1].start_hour_offset = Null
    /\ requirements[2].resource_id = Some(1)
    /\ ValidSegment(requirements[2])
    /\ Len(tasksToRender) = 1
    /\ tasksToRender[1].id = 2

\* The resources that have at least one valid segment.
ResourcesWithValidSegment ==
    { Get(requirements[i].resource_id) :
        i \in { j \in 1..Len(requirements) : ValidSegment(requirements[j]) } }

\* The entries of totalEngagementBars of resource rid.
BarsOf(rid) ==
    { k \in 1..Len(totalEngagementBars) : totalEngagementBars[k].resourceId = rid }

\* C4 as stated: a resource none of whose segments is valid has no entry in
\* totalEngagementBars.
C4_NoBarWithoutValidSegment ==
    \A k \in 1..Len(totalEngagementBars) :
        totalEngagementBars[k].resourceId \in ResourcesWithValidSegment

\* C5 as stated: totalEngagementBars has exactly one entry for every resource
\* that has at least one valid segment.
C5_OneBarPerResourceWithValidSegment ==
    \A rid \in ResourcesWithValidSegment : Cardinality(BarsOf(rid)) = 1

\* C6 as stated: for every rendered segment, left is at least
\* (startDay - 1) * dayWidth and less than startDay * dayWidth.
C6_LeftWithinDayColumn ==
    \A k \in 1..Len(tasksToRender) :
        /\ tasksToRender[k].left >= (Get(tasksToRender[k].start_day) - 1) * DAY_WIDTH * PxDen
        /\ tasksToRender[k].left < Get(tasksToRender[k].start_day) * DAY_WIDTH * PxDen

\* C6 as amended: for every rendered segment with startDay >= 1 and
\* 0 <= startHourOffset < dailyHourLimit, left is at least
\* (startDay - 1) * dayWidth and less than startDay * dayWidth.
C6_LeftWithinDayColumnOfContractSegment ==
    \A k \in 1..Len(tasksToRender) :
        ( /\ Get(tasksToRender[k].start_day) >= 1
          /\ Get(tasksToRender[k].start_hour_offset) >= 0
          /\ Get(tasksToRender[k].start_hour_offset) < DAILY_HOUR_LIMIT * HourDen )
        => /\ tasksToRender[k].left >=
                  (Get(tasksToRender[k].start_day) - 1) * DAY_WIDTH * PxDen
           /\ tasksToRender[k].left <
                  Get(tasksToRender[k].start_day) * DAY_WIDTH * PxDen

\* C6 witness: a segment of day 2 that starts 1/HourDen hour before the end
\* of the day is rendered inside the column of day 2, short of day 3.
C6_Witness ==
    \E k \in 1..Len(tasksToRender) :
        /\ tasksToRender[k].start_day = Some(2)
        /\ tasksToRender[k].start_hour_offset = Some((DAILY_HOUR_LIMIT * HourDen) - 1)
        /\ tasksToRender[k].left > DAY_WIDTH * PxDen
        /\ tasksToRender[k].left < 2 * DAY_WIDTH * PxDen

\* C7: every rendered segment is at least 4 pixels wide.
C7_MinimumWidth ==
    \A k \in 1..Len(tasksToRender) : tasksToRender[k].width >= MIN_WIDTH * PxDen

\* C7 witness: a segment of 1/HourDen hour, narrower than 4 pixels by its
\* hours, is rendered 4 pixels wide.
C7_Witness ==
    \E k \in 1..Len(tasksToRender) :
        /\ tasksToRender[k].segment_hours = Some(1)
        /\ Get(tasksToRender[k].segment_hours) * DAY_WIDTH < MIN_WIDTH * PxDen
        /\ tasksToRender[k].width = MIN_WIDTH * PxDen

\* C8 as stated: the engagement bar of every resource with a valid segment
\* has travelStartDay >= 1 and travelEndDay >= travelStartDay.
C8_BarDaysOrdered ==
    \A k \in 1..Len(totalEngagementBars) :
        totalEngagementBars[k].resourceId \in ResourcesWithValidSegment
        => /\ totalEngagementBars[k].travelStartDay >= 1
           /\ totalEngagementBars[k].travelEndDay >=
                  totalEngagementBars[k].travelStartDay

\* Whether every segment of resource rid that has both startDay and
\* durationDays has startDay >= 1 and durationDays >= 1.
DaysInContract(rid) ==
    \A i \in PositionsOf(rid) :
        (requirements[i].start_day # Null /\ requirements[i].duration_days # Null)
        => (Get(requirements[i].start_day) >= 1
            /\ Get(requirements[i].duration_days) >= 1)

\* C8 as amended: the engagement bar of every resource with a valid segment,
\* all of whose segments have startDay >= 1 and durationDays >= 1, has
\* travelStartDay >= 1 and travelEndDay >= travelStartDay; travelStartDay >= 1
\* holds for every bar.
C8_BarDaysOrderedOfContractSegments ==
    \A k \in 1..Len(totalEngagementBars) :
        /\ totalEngagementBars[k].travelStartDay >= 1
        /\ ( /\ totalEngagementBars[k].resourceId \in ResourcesWithValidSegment
             /\ DaysInContract(totalEngagementBars[k].resourceId) )
           => totalEngagementBars[k].travelEndDay >=
                 totalEngagementBars[k].travelStartDay

\* C8 witness: a resource whose first task starts on day 1 has a bar that
\* starts on day 1 (not on day 0) and ends later.
C8_Witness ==
    \E k \in 1..Len(totalEngagementBars) :
        /\ totalEngagementBars[k].resourceId \in ResourcesWithValidSegment
        /\ DaysInContract(totalEngagementBars[k].resourceId)
        /\ \E i \in PositionsOf(totalEngagementBars[k].resourceId) :
              requirements[i].start_day = Some(1) /\ requirements[i].duration_days # Null
        /\ totalEngagementBars[k].travelStartDay = 1
        /\ totalEngagementBars[k].travelEndDay > 1

\* C9: the element rendered tells the three cases apart: it is the loading
\* element exactly while loading is true, the error element exactly when
\* loading is over and an error is reported, and the empty element exactly
\* when loading is over without error and there are no segments.
C9_ThreeOutcomes ==
    /\ (rendered = "gantt-loading") = loading
    /\ (rendered = "gantt-error") = (~loading /\ error # "")
    /\ (rendered = "gantt-empty") = (~loading /\ error = "" /\ requirements = << >>)

\* C9 witness: an error reported with no segments is rendered as the error
\* element, not as the empty one.
C9_Witness ==
    /\ ~loading
    /\ error # ""
    /\ requirements = << >>
    /\ rendered = "gantt-error"

\* C10 as stated: when the input has no valid segment and the caller is
\* neither loading nor reporting an error, the empty element is rendered.
C10_EmptyWithoutValidSegment ==
    ( /\ ~loading
      /\ error = ""
      /\ \A i \in 1..Len(requirements) : ~ValidSegment(requirements[i]) )
    => rendered = "gantt-empty"

\* The position in the input of the first segment of resource rid.
FirstPosition(rid) ==
    CHOOSE i \in PositionsOf(rid) : \A j \in PositionsOf(rid) : i <= j

\* C11: the resource groups are in the order in which their resource ids
\* first occur in the input: every group has a segment, and group a precedes
\* group b iff the first segment of a's resource precedes the first segment
\* of b's resource.
C11_ResourcesInFirstOccurrenceOrder ==
    /\ \A a \in DOMAIN resourceGroups :
          PositionsOf(resourceGroups[a].resourceId) # {}
    /\ \A a, b \in DOMAIN resourceGroups :
          (a < b) <=> (FirstPosition(resourceGroups[a].resourceId)
                         < FirstPosition(resourceGroups[b].resourceId))

\* A segment without a resource, then one of resource 2, then one of
\* resource 1: the groups are 2, 1.
C11_Witness ==
    /\ Len(requirements) = 3
    /\ requirements[1].resource_id = Null
    /\ requirements[2].resource_id = Some(2)
    /\ requirements[3].resource_id = Some(1)
    /\ Len(resourceGroups) = 2
    /\ resourceGroups[1].resourceId = 2
    /\ resourceGroups[2].resourceId = 1

\* C12: for every day of the timeline and whatever the two flags, the day is
\* classified as a rest day iff its day of the week is 5 and Saturdays are not
\* worked, or 6 and Sundays are not worked, the day of the week being
\* ((month - 1) * 30 + dayOfMonth - 1) mod 7; days of the week 0..4 are work
\* days whatever the flags.
C12_RestDays ==
    \A month \in 1..12, dayOfMonth \in 1..30 :
        LET dayOfWeek == (((month - 1) * 30) + dayOfMonth - 1) % 7
        IN /\ (<<month, dayOfMonth>> \in weekendDays)
                <=> \/ (dayOfWeek = 5 /\ workOnSaturday = FALSE)
                    \/ (dayOfWeek = 6 /\ workOnSunday = FALSE)
           /\ (dayOfWeek \in 0..4) => (<<month, dayOfMonth>> \notin weekendDays)

\* Saturdays are worked and Sundays are not: day 6 of month 1 is a work day,
\* day 7 of month 1 and day 5 of month 2 (the 35th day) are rest days.
C12_Witness ==
    /\ workOnSaturday = TRUE
    /\ workOnSunday = FALSE
    /\ <<1, 6>> \notin weekendDays
    /\ <<1, 7>> \in weekendDays
    /\ <<2, 5>> \in weekendDays
    /\ <<2, 4>> \notin weekendDays

\* The positions of the segments of resource rid that have a start day and a
\* duration, the first days of these segments and their last days.
SpanPositions(rid) ==
    { i \in PositionsOf(rid) :
        requirements[i].start_day # Null /\ requirements[i].duration_days # Null }

FirstDays(rid) == { Get(requirements[i].start_day) : i \in SpanPositions(rid) }

LastDays(rid) ==
    { Get(requirements[i].start_day) + Get(requirements[i].duration_days) - 1 :
        i \in SpanPositions(rid) }

\* C13: every resource with segments (that have a start day and a duration)
\* has one engagement span, with paddedStartDay = max(1, min - 1),
\* paddedEndDay = max + 1 and totalSpanDays = max(1, paddedEndDay -
\* paddedStartDay + 1), min being the least start day and max the greatest
\* last day (startDay + durationDays - 1) of its segments.
C13_EngagementSpan ==
    \A g \in DOMAIN resourceGroups :
        LET rid == resourceGroups[g].resourceId
        IN SpanPositions(rid) # {} =>
              LET min == CHOOSE d \in FirstDays(rid) : \A e \in FirstDays(rid) : d <= e
                  max == CHOOSE d \in LastDays(rid) : \A e \in LastDays(rid) : d >= e
                  paddedStartDay == IF min - 1 > 1 THEN min - 1 ELSE 1
                  paddedEndDay == max + 1
                  span == paddedEndDay - paddedStartDay + 1
                  totalSpanDays == IF span > 1 THEN span ELSE 1
              IN /\ Cardinality(BarsOf(rid)) = 1
                 /\ \A k \in BarsOf(rid) :
                       /\ totalEngagementBars[k].travelStartDay = paddedStartDay
                       /\ totalEngagementBars[k].travelEndDay = paddedEndDay
                       /\ totalEngagementBars[k].totalDuration = totalSpanDays

\* The claim's example: segments (start day 3, 2 days) and (start day 10,
\* 1 day) of one resource give the span 2, 11, 10.
C13_Witness ==
    /\ Len(requirements) = 2
    /\ requirements[1].start_day = Some(3) /\ requirements[1].duration_days = Some(2)
    /\ requirements[2].start_day = Some(10) /\ requirements[2].duration_days = Some(1)
    /\ Len(totalEngagementBars) = 1
    /\ totalEngagementBars[1].travelStartDay = 2
    /\ totalEngagementBars[1].travelEndDay = 11
    /\ totalEngagementBars[1].totalDuration = 10

\* hours (in 1/HourDen hour) as a length in 1/PxDen pixel, a day of
\* dailyHourLimit hours being dayWidth pixels wide: (hours / dailyHourLimit)
\* * dayWidth.
HoursAsPixels(hours, dailyHourLimit, dayWidth) ==
    (hours * dayWidth * PxDen) \div (dailyHourLimit * HourDen)

\* C14: every valid segment is rendered with horizontalOffset =
\* (max(1, startDay) - 1) * dayWidth + (startHourOffset / dailyHourLimit) *
\* dayWidth and pixelWidth = max((segmentHours / dailyHourLimit) * dayWidth,
\* minimumWidth), with dayWidth = 30 and dailyHourLimit = 8 (and the minimum
\* width of 4 pixels).
C14_HorizontalGeometry ==
    \A i \in 1..Len(requirements) :
        LET seg == requirements[i]
        IN ValidSegment(seg) =>
              LET startDay == IF Get(seg.start_day) > 1 THEN Get(seg.start_day) ELSE 1
                  horizontalOffset ==
                      ((startDay - 1) * 30 * PxDen)
                        + HoursAsPixels(Get(seg.start_hour_offset), 8, 30)
                  hoursWidth == HoursAsPixels(Get(seg.segment_hours), 8, 30)
                  pixelWidth == IF hoursWidth > 4 * PxDen THEN hoursWidth ELSE 4 * PxDen
              IN /\ TasksOfSegment(seg.id) # {}
                 /\ \A k \in TasksOfSegment(seg.id) :
                       /\ tasksToRender[k].left = horizontalOffset
                       /\ tasksToRender[k].width = pixelWidth

\* The claim's example: start day 1, hour offset 4, 4 segment hours give the
\* horizontal offset 15 pixels and the width 15 pixels.
C14_Witness ==
    /\ Len(requirements) = 1
    /\ requirements[1].start_day = Some(1)
    /\ requirements[1].start_hour_offset = Some(4 * HourDen)
    /\ requirements[1].segment_hours = Some(4 * HourDen)
    /\ Len(tasksToRender) = 1
    /\ tasksToRender[1].left = 15 * PxDen
    /\ tasksToRender[1].width = 15 * PxDen

\* The ids of the segments for which the layout pass logged a warning.
WarnedSegments == { warnings[w] : w \in DOMAIN warnings }

\* C16 as stated: every malformed segment the layout drops (one without a
\* resource id, start day, start hour offset or segment hours) has a
\* diagnostic record, and every well-formed segment is laid out all the same.
C16_EveryDroppedSegmentWarned ==
    \A i \in 1..Len(requirements) :
        IF ValidSegment(requirements[i])
        THEN TasksOfSegment(requirements[i].id) # {}
        ELSE /\ TasksOfSegment(requirements[i].id) = {}
             /\ requirements[i].id \in WarnedSegments

\* The tasks present among the segments of the item called name of rid.
TasksOfItem(rid, name) ==
    { it[2] : it \in { p \in ItemTasksOf(rid) : p[1] = name } }

\* C17: the deduplicated hours of every item group are the sum of the total
\* hours of the distinct tasks occurring among the item's segments, each
\* taken once however many segments the task is split into (segments without
\* a task id add nothing).
C17_ItemHoursOncePerTask ==
    \A g \in 1..Len(resourceGroups) :
        \A k \in 1..Len(resourceGroups[g].machines) :
            LET rid == resourceGroups[g].resourceId
                name == resourceGroups[g].machines[k].machineName
            IN resourceGroups[g].machines[k].displayHours =
                  SumOver(LAMBDA t : FirstTotalHours(ItemTaskPositions(rid, name, t)),
                          TasksOfItem(rid, name))

\* An item whose two segments are the two parts of one task of 8 hours has
\* 8 deduplicated hours.
C17_Witness ==
    /\ Len(requirements) = 2
    /\ requirements[1].originalRequirementId = Some(1)
    /\ requirements[2].originalRequirementId = Some(1)
    /\ requirements[1].total_training_hours = Some(8 * HourDen)
    /\ requirements[2].total_training_hours = Some(8 * HourDen)
    /\ Len(resourceGroups) = 1
    /\ Len(resourceGroups[1].machines) = 1
    /\ Len(resourceGroups[1].machines[1].requirements) = 2
    /\ resourceGroups[1].machines[1].displayHours = 8 * HourDen

\* The item names of the inputs in ascending lexicographic order, and the
\* place of a name in it.
LexicographicNames == << "CAD", "Drill", "Lathe", "Unknown Machine" >>

NamePlace(name) ==
    CHOOSE p \in DOMAIN LexicographicNames : LexicographicNames[p] = name

\* C18 as stated: within a resource, two items of the same category are in
\* ascending lexicographic order of their names, whatever the order of the
\* input.
C18_SameCategoryByName ==
    \A g \in 1..Len(resourceGroups) :
        \A i, j \in 1..Len(resourceGroups[g].machines) :
            (/\ i < j
             /\ resourceGroups[g].machines[i].resourceCategory =
                   resourceGroups[g].machines[j].resourceCategory)
                => NamePlace(resourceGroups[g].machines[i].machineName)
                     < NamePlace(resourceGroups[g].machines[j].machineName)

\* The item name of a segment: its machine name, or the placeholder.
ItemName(seg) ==
    IF seg.machine_name = "" THEN "Unknown Machine" ELSE seg.machine_name

\* The places <<group, item, position>> of resourceGroups that hold the
\* segment numbered id.
Places(id) ==
    { pl \in UNION { UNION { { <<g, k, p>> :
                                 p \in DOMAIN resourceGroups[g].machines[k].requirements } :
                             k \in DOMAIN resourceGroups[g].machines } :
                     g \in DOMAIN resourceGroups } :
        resourceGroups[pl[1]].machines[pl[2]].requirements[pl[3]].id = id }

\* C19: the grouping partitions the input: one resource group per distinct
\* resource id of the input, within it one item group per distinct item name
\* of the resource's segments, every segment with a resource id in exactly
\* one item group, that of its resource id and item name, and a segment
\* without a resource id in none.
C19_GroupingPartitions ==
    /\ \A a, b \in DOMAIN resourceGroups :
          resourceGroups[a].resourceId = resourceGroups[b].resourceId => a = b
    /\ { resourceGroups[a].resourceId : a \in DOMAIN resourceGroups }
          = { Get(requirements[i].resource_id) :
                i \in { j \in DOMAIN requirements : requirements[j].resource_id # Null } }
    /\ \A g \in DOMAIN resourceGroups :
          LET ms == resourceGroups[g].machines
          IN /\ \A a, b \in DOMAIN ms : ms[a].machineName = ms[b].machineName => a = b
             /\ { ms[a].machineName : a \in DOMAIN ms }
                   = { ItemName(requirements[i]) :
                         i \in PositionsOf(resourceGroups[g].resourceId) }
    /\ \A i \in DOMAIN requirements :
          IF requirements[i].resource_id = Null
          THEN Places(requirements[i].id) = {}
          ELSE /\ Cardinality(Places(requirements[i].id)) = 1
               /\ \A pl \in Places(requirements[i].id) :
                     /\ resourceGroups[pl[1]].resourceId
                           = Get(requirements[i].resource_id)
                     /\ resourceGroups[pl[1]].machines[pl[2]].machineName
                           = ItemName(requirements[i])

\* Three segments: one without a resource, and two of resource 1, one
\* called CAD and one without a machine name. There is one resource group,
\* with the item groups CAD and Unknown Machine, of one segment each.
C19_Witness ==
    /\ Len(requirements) = 3
    /\ \E i \in 1..3 : requirements[i].resource_id = Null /\ requirements[i].machine_name = "CAD"
    /\ \E i \in 1..3 : requirements[i].resource_id = Some(1) /\ requirements[i].machine_name = "CAD"
    /\ \E i \in 1..3 : requirements[i].resource_id = Some(1) /\ requirements[i].machine_name = ""
    /\ Len(resourceGroups) = 1
    /\ Len(resourceGroups[1].machines) = 2
    /\ resourceGroups[1].machines[2].machineName = "Unknown Machine"
    /\ Len(resourceGroups[1].machines[1].requirements) = 1
    /\ Len(resourceGroups[1].machines[2].requirements) = 1

\* The header offset of the g-th resource group and the offset of its k-th
\* item row (k from 1), accumulated over the groups before it.
HeaderOffset(g) ==
    SumOver(LAMBDA h : RESOURCE_HEADER_HEIGHT
                         + (Len(resourceGroups[h].machines) * MACHINE_ROW_HEIGHT),
            1..(g - 1))

RowOffset(g, k) ==
    HeaderOffset(g) + RESOURCE_HEADER_HEIGHT + ((k - 1) * MACHINE_ROW_HEIGHT)

\* C20: vertical offsets are one forward accumulation in group order: the
\* engagement span of a resource carries the resource's header offset, the
\* sum over the preceding resources of headerHeight + itemCount *
\* itemRowHeight; every rendered segment carries the offset of its item row,
\* header offset + headerHeight + j * itemRowHeight for the j-th item
\* (0-based, sorted order); and the offsets strictly increase from row to row.
C20_VerticalOffsets ==
    /\ \A b \in DOMAIN totalEngagementBars :
          \E g \in DOMAIN resourceGroups :
              /\ resourceGroups[g].resourceId = totalEngagementBars[b].resourceId
              /\ totalEngagementBars[b].top = HeaderOffset(g)
    /\ \A t \in DOMAIN tasksToRender :
          /\ Places(tasksToRender[t].id) # {}
          /\ \A pl \in Places(tasksToRender[t].id) :
                tasksToRender[t].top = RowOffset(pl[1], pl[2])
    /\ \A t, u \in DOMAIN tasksToRender :
          \A pt \in Places(tasksToRender[t].id), pu \in Places(tasksToRender[u].id) :
              (pt[1] < pu[1] \/ (pt[1] = pu[1] /\ pt[2] < pu[2]))
                 => tasksToRender[t].top < tasksToRender[u].top

\* Resource 2 with one item, then resource 1 with two: the spans are at 0
\* and 70 and the three segments at 40, 110 and 140.
C20_Witness ==
    /\ Len(resourceGroups) = 2
    /\ Len(resourceGroups[1].machines) = 1
    /\ Len(resourceGroups[2].machines) = 2
    /\ Len(totalEngagementBars) = 2
    /\ totalEngagementBars[1].top = 0
    /\ totalEngagementBars[2].top = 70
    /\ Len(tasksToRender) = 3
    /\ tasksToRender[1].top = 40
    /\ tasksToRender[2].top = 110
    /\ tasksToRender[3].top = 140

\* C21: totalGridHeight is the sum over the resource groups of headerHeight +
\* itemCount * itemRowHeight, which is the final value of the running
\* vertical offset of the layout pass; hence every header row and every item
\* row lies within [0, totalGridHeight].
C21_GridHeight ==
    /\ totalGridHeight =
          SumOver(LAMBDA g : RESOURCE_HEADER_HEIGHT
                               + (Len(resourceGroups[g].machines) * MACHINE_ROW_HEIGHT),
                  DOMAIN resourceGroups)
    /\ totalGridHeight = Layout(requirements, resourceGroups).currentTop
    /\ \A g \in DOMAIN resourceGroups :
          /\ 0 <= HeaderOffset(g)
          /\ HeaderOffset(g) + RESOURCE_HEADER_HEIGHT <= totalGridHeight
          /\ \A k \in DOMAIN resourceGroups[g].machines :
                /\ 0 <= RowOffset(g, k)
                /\ RowOffset(g, k) + MACHINE_ROW_HEIGHT <= totalGridHeight
    /\ \A b \in DOMAIN totalEngagementBars :
          /\ 0 <= totalEngagementBars[b].top
          /\ totalEngagementBars[b].top + RESOURCE_HEADER_HEIGHT <= totalGridHeight
    /\ \A t \in DOMAIN tasksToRender :
          /\ 0 <= tasksToRender[t].top
          /\ tasksToRender[t].top + MACHINE_ROW_HEIGHT <= totalGridHeight

\* Resource 2 with one item, then resource 1 with two: the grid is 170 high
\* and the last item row, at 140, ends at 170.
C21_Witness ==
    /\ Len(resourceGroups) = 2
    /\ Len(resourceGroups[1].machines) = 1
    /\ Len(resourceGroups[2].machines) = 2
    /\ totalGridHeight = 170
    /\ \E t \in DOMAIN tasksToRender : tasksToRender[t].top = 140

\* C22: the calendar position of a segment that starts on day d >= 1 is
\* (month, dayOfMonth) with 1 <= dayOfMonth <= 30 and (month - 1) * 30 +
\* dayOfMonth = d; classifying (month, dayOfMonth) gives what classifying the
\* absolute day d by (d - 1) mod 7 gives; and the pixel geometry is that of
\* the absolute day, whatever the month and the day of the month are.
C22_CalendarPosition ==
    \A t \in DOMAIN tasksToRender :
        LET task == tasksToRender[t]
            d == Get(task.start_day)
        IN d >= 1 =>
              /\ task.month >= 1
              /\ 1 <= task.dayOfMonth /\ task.dayOfMonth <= 30
              /\ ((task.month - 1) * 30) + task.dayOfMonth = d
              /\ isWeekend(task.month, task.dayOfMonth)
                    <=> \/ ((d - 1) % 7 = 5 /\ ~workOnSaturday)
                        \/ ((d - 1) % 7 = 6 /\ ~workOnSunday)
              /\ task.left = ((d - 1) * DAY_WIDTH * PxDen)
                               + HoursAsPixels(Get(task.start_hour_offset),
                                               DAILY_HOUR_LIMIT, DAY_WIDTH)
              /\ task.width = HoursAsPixels(Get(task.segment_hours),
                                            DAILY_HOUR_LIMIT, DAY_WIDTH)

\* A segment that starts on day 35 while Sundays are rest days: it is day 5
\* of month 2, a rest day.
C22_Witness ==
    /\ workOnSaturday = TRUE
    /\ workOnSunday = FALSE
    /\ Len(tasksToRender) = 1
    /\ tasksToRender[1].start_day = Some(35)
    /\ tasksToRender[1].month = 2
    /\ tasksToRender[1].dayOfMonth = 5
    /\ isWeekend(2, 5)
    /\ <<2, 5>> \in weekendDays

\* C23 as stated: after every handled scroll event the header's horizontal
\* translation is minus the grid's scrollLeft and the label column's vertical
\* translation is minus the grid's scrollTop, and the handler writes neither
\* the grid's scroll position nor any layout data.
C23_TranslationsFollowScroll ==
    [][handleScroll =>
          /\ headerTranslateX' = 0 - scrollLeft'
          /\ listTranslateY' = 0 - scrollTop'
          /\ UNCHANGED <<scrollLeft, scrollTop, props, layoutData>>]_vars

\* The rearrangements of the input that keep the segments of each resource
\* in their relative order: p[i] is the old position of the i-th segment.
CrossResourceReorderings ==
    { p \in Perms([i \in DOMAIN requirements |-> i]) :
        \A i, j \in DOMAIN requirements :
            (/\ i < j
             /\ requirements[p[i]].resource_id = requirements[p[j]].resource_id)
                => p[i] < p[j] }

Reordered(p) == [i \in DOMAIN requirements |-> requirements[p[i]]]

\* What C24 says is unchanged, read off a layout: the engagement span of each
\* resource, the horizontal offset and width of each segment, and the
\* deduplicated hours of each item.
SpansIn(bars) ==
    { << bars[b].resourceId, bars[b].travelStartDay, bars[b].travelEndDay,
         bars[b].totalDuration >> : b \in DOMAIN bars }

GeometryIn(tasks) ==
    { << tasks[t].id, tasks[t].left, tasks[t].width >> : t \in DOMAIN tasks }

HoursIn(groups) ==
    UNION { { << groups[g].resourceId, groups[g].machines[k].machineName,
                 groups[g].machines[k].displayHours >> :
                k \in DOMAIN groups[g].machines } : g \in DOMAIN groups }

\* C24: for every rearrangement of the input that keeps each resource's
\* segments in their relative order, the layout of the rearranged input has
\* the same engagement span for every resource, the same horizontal offset
\* and width for every segment and the same deduplicated hours for every
\* item as the layout of the input.
C24_OrderIndependentAcrossResources ==
    \A p \in CrossResourceReorderings :
        \A groups \in ResourceGroupsOutcomes(Reordered(p)) :
            LET layout == Layout(Reordered(p), groups)
            IN /\ SpansIn(layout.engagements) = SpansIn(totalEngagementBars)
               /\ GeometryIn(layout.tasks) = GeometryIn(tasksToRender)
               /\ HoursIn(groups) = HoursIn(resourceGroups)

\* Segments of resource 1, resource 2 and resource 1 again, which can be
\* rearranged in three ways: resource 1 spans days 2 to 7 and has 8 hours,
\* resource 2 spans days 1 to 2 and has 4 hours.
C24_Witness ==
    /\ Len(requirements) = 3
    /\ requirements[1].resource_id = Some(1)
    /\ requirements[2].resource_id = Some(2)
    /\ requirements[3].resource_id = Some(1)
    /\ Cardinality(CrossResourceReorderings) = 3
    /\ SpansIn(totalEngagementBars) = { <<1, 2, 7, 6>>, <<2, 1, 2, 2>> }
    /\ HoursIn(resourceGroups) = { <<1, "Drill", 8 * HourDen>>, <<2, "Drill", 4 * HourDen>> }

\* C25: the engagement span of a resource covers every segment of the
\* resource that has startDay >= 1 and durationDays >= 1: there is a span
\* with travelStartDay <= startDay and startDay + durationDays - 1 <
\* travelEndDay, and its totalDuration is travelEndDay - travelStartDay + 1.
C25_SpanCoversSegments ==
    \A i \in DOMAIN requirements :
        LET seg == requirements[i]
        IN (/\ seg.resource_id # Null
            /\ seg.start_day # Null /\ seg.duration_days # Null
            /\ Get(seg.start_day) >= 1 /\ Get(seg.duration_days) >= 1)
              => /\ BarsOf(Get(seg.resource_id)) # {}
                 /\ \A b \in BarsOf(Get(seg.resource_id)) :
                       LET bar == totalEngagementBars[b]
                       IN /\ bar.travelStartDay <= Get(seg.start_day)
                          /\ Get(seg.start_day) + Get(seg.duration_days) - 1
                                < bar.travelEndDay
                          /\ bar.totalDuration
                                = bar.travelEndDay - bar.travelStartDay + 1

\* A segment of days 10 to 11 together with a segment that starts on day 0
\* and has no days: the span runs from day 1 to day 12 and lasts 12 days.
C25_Witness ==
    /\ Len(requirements) = 2
    /\ \E i \in 1..2 : /\ requirements[i].start_day = Some(10)
                       /\ requirements[i].duration_days = Some(2)
    /\ \E i \in 1..2 : /\ requirements[i].start_day = Some(0)
                       /\ requirements[i].duration_days = Some(0)
    /\ Len(totalEngagementBars) = 1
    /\ totalEngagementBars[1].travelStartDay = 1
    /\ totalEngagementBars[1].travelEndDay = 12
    /\ totalEngagementBars[1].totalDuration = 12

\* C26 as stated: whenever no fetch is in flight (and none has left an error
\* behind), loading is false and topics are the rows of the most recent
\* selection, none for an empty selection: the answer to an older fetch never
\* replaces a newer result.
C26_TopicsOfLatestSelection ==
    (fetchesInFlight = {} /\ topicsError = "")
        => /\ topicsLoading = FALSE
           /\ topics = SelectTopics(training_topics, selectedMachineIds)

\* C27 as stated: when the calls of updatePlanningDetails of a quote have
\* finished, planning_details has no two rows for the same plan and machine
\* and, if no request was answered with an error, has a row for every
\* (selected machine, plan) pair of the latest selection and no row for a
\* machine outside it.
C27_RowsOfLatestSelection ==
    (runs # << >> /\ \A r \in DOMAIN runs : runs[r].pc = "done")
        => /\ \A row, other \in planning_details :
                 (/\ row.plan_id = other.plan_id
                  /\ row.machine_types_id = other.machine_types_id)
                    => row = other
           /\ ~backendError =>
                 /\ \A i \in DOMAIN selectorMachineIds, p \in DOMAIN plans :
                       DetailsOf(selectorMachineIds[i], plans[p]) # {}
                 /\ \A row \in planning_details :
                       \E i \in DOMAIN selectorMachineIds :
                           selectorMachineIds[i] = row.machine_types_id

\* The rows the inserts of the pending call of addTopic have put in the table.
InsertedByCall ==
    { training_topics[n] :
        n \in (Get(addCall).rowsBefore + 1) .. Len(training_topics) }

\* C28: a call of addTopic with a blank text returns false and leaves topics
\* alone; a call with another text returns true iff one of its inserts
\* succeeded, and then topics is what it was followed by exactly the rows
\* inserted; when no insert succeeded (or no machine is selected) it returns
\* false and leaves topics alone.
C28_AddTopicOutcome ==
    [][ /\ (addsStarted' = addsStarted + 1 /\ addCall' = Null)
            => (addReturned' = Some(FALSE) /\ topics' = topics)
        /\ (addCall # Null /\ addCall' = Null)
            => /\ addReturned' = Some(InsertedByCall # {})
               /\ Len(topics') = Len(topics) + Cardinality(InsertedByCall)
               /\ SubSeq(topics', 1, Len(topics)) = topics
               /\ { topics'[n] : n \in (Len(topics) + 1) .. Len(topics') }
                     = InsertedByCall ]_vars

\* addTopic returned true with two machines selected after one of its two
\* inserts failed: the table and topics have one row more.
C28_Witness ==
    /\ addReturned = Some(TRUE)
    /\ addsStarted = 1
    /\ Len(selectedMachineIds) = 2
    /\ Len(training_topics) = Len(InitialTopics) + 1
    /\ Len(topics) = Len(InitialTopics) + 1

\* C29: PrivateRoute returns its children only when isLoading is false and
\* there is a user; while isLoading is true it returns neither the children
\* nor a redirect; when isLoading is false and there is no user it returns a
\* redirect to "/" and not the children.
C29_ChildrenOnlyForUser ==
    history[Len(history)] \in PrivatePaths
        => /\ routeElement.element = "children"
                 => (~authLoading /\ user # Null)
           /\ authLoading => routeElement.element \notin { "children", "Navigate" }
           /\ (~authLoading /\ user = Null)
                 => /\ routeElement.element = "Navigate"
                    /\ routeElement.to = "/"

\* A private path is the location after the session was read and no user
\* found: PrivateRoute has returned the redirect, whose effect has not run.
C29_Witness ==
    /\ Len(history) = MaxHistory
    /\ history[Len(history)] \in PrivatePaths
    /\ ~authLoading
    /\ user = Null
    /\ routeElement = NavigateTo("/")
\* C30: when checkAreaNameExists has reported that another area has the
\* submitted name, handleSave is over with isSaving false, and it has sent
\* no insert or update to area_costs and has called neither onSave nor
\* onClose.
C30_NoWriteWhenNameExists ==
    (saveCall # Null /\ Get(saveCall).nameExists = Some(TRUE))
        => /\ Get(saveCall).pc = "done"
           /\ ~isSaving
           /\ ~Get(saveCall).wrote
           /\ ~Get(saveCall).saved
           /\ ~Get(saveCall).closed

\* A second area was created, and then a call that renames one area to the
\* name of the other was stopped by the check.
C30_Witness ==
    /\ saveCall # Null
    /\ Get(saveCall).nameExists = Some(TRUE)
    /\ Get(saveCall).areaCost # Null
    /\ Get(Get(saveCall).areaCost).area_name # Get(saveCall).areaName
    /\ Cardinality(area_costs) = 2
    /\ onSaveCalls = 1
====
